---- MODULE Spec2Model ----
(***************************************************************************)
(* Mars-Weather-App: a model of the weather client (src/src/api_client.py) *)
(* and of the records it builds (src/src/utils.py).                        *)
(*                                                                         *)
(* A JSON value is a tagged record: Absent (the key is not there), JNull,  *)
(* JNum(n), JDec(v, scale) (the decimal v/scale), JStr(s), JList and       *)
(* JObj(m), m a function whose domain is the set of keys that are present. *)
(* The sol identifiers, which the code converts with int(), are sequences  *)
(* of one-character strings, so that the conversion is computed digit by   *)
(* digit.                                                                  *)
(***************************************************************************)
EXTENDS Integers, Sequences, FiniteSets, TLC

VARIABLES
    pc, transport, result,      \* the weather client: one call at a time
    gets,                       \* the GET requests the call has issued
    made, self, ret, step,      \* a record of utils.py and the calls on it
    disk, stored,               \* the files of utils.py; what was cached
    ui, current_weather,        \* the window and the record it shows
    mainloop, after_queue,      \* the Tk event loop and its pending timers
    threads,                    \* the threads refresh_weather_data started
    writers                     \* which thread wrote which part of the state

fetchVars == <<pc, transport, result, gets>>

recordVars == <<made, self, ret, step>>

storeVars == <<disk, stored>>

appVars == <<ui, current_weather, mainloop, after_queue, threads, writers>>

vars == <<fetchVars, recordVars, storeVars, appVars>>

-----------------------------------------------------------------------------
(* JSON values *)

Absent == [t |-> "absent"]

JNull == [t |-> "null"]

JNum(n) == [t |-> "num", v |-> n, scale |-> 1]

JDec(n, s) == [t |-> "num", v |-> n, scale |-> s]

JStr(s) == [t |-> "str", s |-> s]

(* True and False *)
JBool(b) == [t |-> "bool", b |-> b]

JObj(m) == [t |-> "obj", m |-> m]

EmptyMap == [k \in {} |-> Absent]

(* The outcome of evaluating a Python expression: a value, or an exception. *)
Ok(v) == [ok |-> TRUE, v |-> v]

Raise(cls, msg) == [ok |-> FALSE, exc |-> cls, msg |-> msg]

(* dict.get(key, default): the value under key when the key is present,    *)
(* the default otherwise; on anything that is not a dict the attribute     *)
(* lookup of .get fails.                                                   *)
DictGet(o, key, default) ==
    IF o.t # "obj" THEN Raise("AttributeError", "get")
    ELSE IF key \in DOMAIN o.m THEN Ok(o.m[key])
    ELSE Ok(default)

-----------------------------------------------------------------------------
(* int(latest_sol): optional surrounding blanks, an optional sign, then    *)
(* one or more decimal digits; anything else is a ValueError.              *)

Digits == {"0", "1", "2", "3", "4", "5", "6", "7", "8", "9"}

DigitVal(c) ==
    CASE c = "0" -> 0 [] c = "1" -> 1 [] c = "2" -> 2 [] c = "3" -> 3
      [] c = "4" -> 4 [] c = "5" -> 5 [] c = "6" -> 6 [] c = "7" -> 7
      [] c = "8" -> 8 [] c = "9" -> 9

RECURSIVE StripLeft(_)
StripLeft(s) ==
    IF s # <<>> /\ Head(s) = " " THEN StripLeft(Tail(s)) ELSE s

RECURSIVE StripRight(_)
StripRight(s) ==
    IF s # <<>> /\ s[Len(s)] = " " THEN StripRight(SubSeq(s, 1, Len(s) - 1)) ELSE s

RECURSIVE DigitsValue(_, _)
DigitsValue(s, acc) ==
    IF s = <<>> THEN acc ELSE DigitsValue(Tail(s), 10 * acc + DigitVal(Head(s)))

PyInt(str) ==
    LET s == StripRight(StripLeft(str))
        signed == s # <<>> /\ Head(s) \in {"+", "-"}
        body == IF signed THEN Tail(s) ELSE s
    IN  IF body = <<>> \/ \E i \in 1..Len(body) : body[i] \notin Digits
        THEN Raise("ValueError", "invalid literal for int()")
        ELSE Ok(IF signed /\ Head(s) = "-" THEN 0 - DigitsValue(body, 0)
                ELSE DigitsValue(body, 0))

-----------------------------------------------------------------------------
(* The proleptic Gregorian calendar of datetime: ordinals count days from  *)
(* 0001-01-01 = 1 to 9999-12-31 = MaxOrdinal.                              *)

MaxOrdinal == 3652059

MaxDeltaDays == 999999999

IsLeap(y) == y % 4 = 0 /\ (y % 100 # 0 \/ y % 400 = 0)

DaysInMonth(y, m) ==
    IF m = 2 THEN (IF IsLeap(y) THEN 29 ELSE 28)
    ELSE IF m \in {4, 6, 9, 11} THEN 30 ELSE 31

DaysBeforeYear(y) ==
    (y - 1) * 365 + ((y - 1) \div 4) - ((y - 1) \div 100) + ((y - 1) \div 400)

RECURSIVE DaysBeforeMonth(_, _)
DaysBeforeMonth(y, m) ==
    IF m = 1 THEN 0 ELSE DaysBeforeMonth(y, m - 1) + DaysInMonth(y, m - 1)

ValidYmd(y, m, d) ==
    /\ y \in 1..9999
    /\ m \in 1..12
    /\ d \in 1..DaysInMonth(y, m)

YmdToOrd(y, m, d) == DaysBeforeYear(y) + DaysBeforeMonth(y, m) + d

(* datetime's _ord2ymd: 400-, 100-, 4- and 1-year cycles, then the month.  *)
OrdToYmd(ord) ==
    LET n0 == ord - 1
        n400 == n0 \div 146097
        r400 == n0 % 146097
        n100 == r400 \div 36524
        r100 == r400 % 36524
        n4 == r100 \div 1461
        r4 == r100 % 1461
        n1 == r4 \div 365
        r1 == r4 % 365
        year == n400 * 400 + 1 + n100 * 100 + n4 * 4 + n1
    IN  IF n1 = 4 \/ n100 = 4 THEN <<year - 1, 12, 31>>
        ELSE LET guess == (r1 + 50) \div 32
                 month == IF DaysBeforeMonth(year, guess) > r1
                          THEN guess - 1 ELSE guess
             IN  <<year, month, r1 - DaysBeforeMonth(year, month) + 1>>

Pad2(n) == IF n < 10 THEN "0" \o ToString(n) ELSE ToString(n)

(* strftime('%Y-%m-%d'): month and day are two digits wide; the year is    *)
(* written as it is.                                                       *)
FormatDate(ymd) == ToString(ymd[1]) \o "-" \o Pad2(ymd[2]) \o "-" \o Pad2(ymd[3])

-----------------------------------------------------------------------------
(* The records of utils.py. *)

TemperatureData(mn, mx, av) == [min_temp |-> mn, max_temp |-> mx, avg_temp |-> av]

PressureData(av, mn, mx) == [pressure |-> av, min_pressure |-> mn, max_pressure |-> mx]

WindData(speed, direction) == [wind_speed |-> speed, wind_direction |-> direction]

MarsWeatherData(sol, date, season, temperature, pressure, wind) ==
    [sol |-> sol, terrestrial_date |-> date, season |-> season,
     temperature |-> temperature, pressure |-> pressure, wind |-> wind]

-----------------------------------------------------------------------------
(* _parse_weather_data.  The decoded body is JObj-like: [t |-> "obj",      *)
(* sol_keys |-> the value under 'sol_keys' (Absent when there is none),    *)
(* sols |-> the per-sol entries, keyed by the sol identifier]; a body that *)
(* decodes to something else than an object has another tag.               *)

Payload(solKeys, sols) == [t |-> "obj", sol_keys |-> solKeys, sols |-> sols]

JList(seq) == [t |-> "list", items |-> seq]

(* A timestamp string whose calendar fields read y-m-d (they need not name *)
(* a day that exists).                                                     *)
JTime(y, m, d) == [t |-> "str", iso |-> TRUE, y |-> y, m |-> m, d |-> d]

MissionStart == JTime(2018, 11, 27)

Range(seq) == {seq[i] : i \in 1..Len(seq)}

(* As GetSolKeys, with the list of sols taken from the keys of the payload *)
(* when 'sol_keys' is missing.                                             *)
GetSolKeysDerived(data) ==
    IF data.t # "obj" THEN Raise("AttributeError", "get")
    ELSE IF data.sol_keys = Absent
         THEN Ok(JList(IF DOMAIN data.sols = {} THEN <<>>
                       ELSE <<CHOOSE k \in DOMAIN data.sols : TRUE>>))
    ELSE Ok(data.sol_keys)

(* data.get('sol_keys', []) *)
GetSolKeys(data) ==
    IF data.t # "obj" THEN Raise("AttributeError", "get")
    ELSE IF data.sol_keys = Absent THEN Ok(JList(<<>>))
    ELSE Ok(data.sol_keys)

(* Python truth of a JSON value, as `not sol_keys` tests it. *)
Falsy(v) ==
    \/ v.t = "null"
    \/ v.t = "list" /\ v.items = <<>>
    \/ v.t = "num" /\ v.v = 0
    \/ v.t = "str" /\ "s" \in DOMAIN v /\ v.s = ""

(* As LatestSol, with the numerically largest identifier taken for latest. *)
LatestSolLargest(sol_keys) ==
    IF sol_keys.t # "list" THEN Raise("TypeError", "not subscriptable")
    ELSE IF sol_keys.items = <<>> THEN Raise("ValueError", "max() arg is an empty sequence")
    ELSE IF \E j \in Range(sol_keys.items) : ~PyInt(j).ok
         THEN Raise("ValueError", "invalid literal for int()")
    ELSE Ok(CHOOSE k \in Range(sol_keys.items) :
                \A j \in Range(sol_keys.items) : PyInt(j).v <= PyInt(k).v)

(* sol_keys[-1] *)
LatestSol(sol_keys) ==
    IF sol_keys.t # "list" THEN Raise("TypeError", "not subscriptable")
    ELSE IF sol_keys.items = <<>> THEN Raise("IndexError", "list index out of range")
    ELSE Ok(sol_keys.items[Len(sol_keys.items)])

(* data[latest_sol] *)
SolData(data, latest_sol) ==
    IF latest_sol \in DOMAIN data.sols THEN Ok(data.sols[latest_sol])
    ELSE Raise("KeyError", "latest_sol")

(* x.get(key, default) on the result of an earlier lookup *)
Field(r, key, default) == IF r.ok THEN DictGet(r.v, key, default) ELSE r

(* As FirstUTC, reading the First_UTC of the latest sol's own entry. *)
FirstUTCOfLatest(data, latest_sol) ==
    LET own == IF latest_sol \in DOMAIN data.sols THEN data.sols[latest_sol]
               ELSE JObj(EmptyMap)
    IN  DictGet(own, "First_UTC", MissionStart)

(* data.get('1', {}).get('First_UTC', '2018-11-27T00:00:00Z') *)
FirstUTC(data, latest_sol) ==
    LET one == IF <<"1">> \in DOMAIN data.sols THEN data.sols[<<"1">>]
               ELSE JObj(EmptyMap)
    IN  DictGet(one, "First_UTC", MissionStart)

(* datetime.fromisoformat(first_utc.replace('Z', '+00:00')), as the ordinal *)
(* of its calendar date.                                                    *)
BaseDate(first_utc) ==
    IF first_utc.t # "str" THEN Raise("AttributeError", "replace")
    ELSE IF "iso" \notin DOMAIN first_utc
              \/ ~ValidYmd(first_utc.y, first_utc.m, first_utc.d)
         THEN Raise("ValueError", "Invalid isoformat string")
    ELSE Ok(YmdToOrd(first_utc.y, first_utc.m, first_utc.d))

(* base_date + timedelta(days=n) *)
AddDays(base, n) ==
    IF n > MaxDeltaDays \/ n < 0 - MaxDeltaDays
    THEN Raise("OverflowError", "days; must have magnitude <= 999999999")
    ELSE IF base + n < 1 \/ base + n > MaxOrdinal
         THEN Raise("OverflowError", "date value out of range")
    ELSE Ok(base + n)

(* The first of the statements, in program order, that raises (0: none). *)
RECURSIVE FirstFailure(_, _)
FirstFailure(steps, i) ==
    IF i > Len(steps) THEN 0
    ELSE IF ~steps[i].ok THEN i ELSE FirstFailure(steps, i + 1)

(* The statements in program order: the value of the last one, or the     *)
(* exception of the first one that raises.                                *)
Sequenced(steps, value) ==
    IF FirstFailure(steps, 1) # 0 THEN steps[FirstFailure(steps, 1)] ELSE Ok(value)

(* Lines 73-78: the temperature block. *)
ExtractTemperature(sol_data) ==
    LET temp_data == DictGet(sol_data, "AT", JObj(EmptyMap))
        mn == Field(temp_data, "mn", JNum(-80))
        mx == Field(temp_data, "mx", JNum(-20))
        av == Field(temp_data, "av", JNum(-50))
    IN  IF ~mn.ok THEN mn
        ELSE IF ~mx.ok THEN mx
        ELSE IF ~av.ok THEN av
        ELSE Ok(TemperatureData(mn.v, mx.v, av.v))

(* As ExtractPressure, with the defaults of av and mn exchanged. *)
ExtractPressureSwapped(sol_data) ==
    LET pressure_data == DictGet(sol_data, "PRE", JObj(EmptyMap))
        av == Field(pressure_data, "av", JNum(600))
        mn == Field(pressure_data, "mn", JNum(650))
        mx == Field(pressure_data, "mx", JNum(700))
    IN  IF ~av.ok THEN av
        ELSE IF ~mn.ok THEN mn
        ELSE IF ~mx.ok THEN mx
        ELSE Ok(PressureData(av.v, mn.v, mx.v))

(* Lines 81-86: the pressure block. *)
ExtractPressure(sol_data) ==
    LET pressure_data == DictGet(sol_data, "PRE", JObj(EmptyMap))
        av == Field(pressure_data, "av", JNum(650))
        mn == Field(pressure_data, "mn", JNum(600))
        mx == Field(pressure_data, "mx", JNum(700))
    IN  IF ~av.ok THEN av
        ELSE IF ~mn.ok THEN mn
        ELSE IF ~mx.ok THEN mx
        ELSE Ok(PressureData(av.v, mn.v, mx.v))

(* Line 92: sol_data.get('WD', {}).get('most_common', {})                 *)
(*                  .get('compass_point', 'NE')                           *)
ExtractWindDirection(sol_data) ==
    Field(Field(DictGet(sol_data, "WD", JObj(EmptyMap)),
                "most_common", JObj(EmptyMap)),
          "compass_point", JStr("NE"))

(* Lines 89-93: the wind block. *)
ExtractWind(sol_data) ==
    LET wind_data == DictGet(sol_data, "HWS", JObj(EmptyMap))
        speed == Field(wind_data, "av", JDec(55, 10))
        direction == ExtractWindDirection(sol_data)
    IN  IF ~speed.ok THEN speed
        ELSE IF ~direction.ok THEN direction
        ELSE Ok(WindData(speed.v, direction.v))

(* Line 96 *)
ExtractSeason(sol_data) == DictGet(sol_data, "Season", JStr("Unknown"))

(* Lines 99-101: the ordinal of base_date + timedelta(days=int(latest_sol)) *)
CurrentDate(data, latest_sol) ==
    LET first_utc == FirstUTC(data, latest_sol)
        base_date == IF first_utc.ok THEN BaseDate(first_utc.v) ELSE first_utc
        days == PyInt(latest_sol)
    IN  IF ~base_date.ok THEN base_date
        ELSE IF ~days.ok THEN days
        ELSE AddDays(base_date.v, days.v)

(* Lines 70-110, once latest_sol is known. *)
BuildRecord(data, latest_sol) ==
    LET sol_data == SolData(data, latest_sol)
        temperature == ExtractTemperature(sol_data.v)
        pressure == ExtractPressure(sol_data.v)
        wind == ExtractWind(sol_data.v)
        season == ExtractSeason(sol_data.v)
        current_date == CurrentDate(data, latest_sol)
        sol == PyInt(latest_sol)
    IN  IF ~sol_data.ok THEN sol_data
        ELSE Sequenced(<<temperature, pressure, wind, season, current_date, sol>>,
                       MarsWeatherData(sol.v, FormatDate(OrdToYmd(current_date.v)),
                                       season.v, temperature.v, pressure.v, wind.v))

(* The try block of _parse_weather_data: [kind |-> "record", rec |-> r],   *)
(* [kind |-> "demo"] for the early return, or the exception it raises.     *)
ExtractWeather(data) ==
    LET sol_keys == GetSolKeys(data)
        latest_sol == LatestSol(sol_keys.v)
        built == BuildRecord(data, latest_sol.v)
    IN  IF ~sol_keys.ok THEN [kind |-> "raise", exc |-> sol_keys.exc]
        ELSE IF Falsy(sol_keys.v) THEN [kind |-> "demo"]
        ELSE IF ~latest_sol.ok THEN [kind |-> "raise", exc |-> latest_sol.exc]
        ELSE IF ~built.ok THEN [kind |-> "raise", exc |-> built.exc]
        ELSE [kind |-> "record", rec |-> built.v]

(* As ParseWeatherData, answering a failed extraction with None. *)
ParseWeatherDataNone(data) ==
    IF ExtractWeather(data).kind = "raise" THEN [kind |-> "record", rec |-> JNull]
    ELSE ExtractWeather(data)

(* _parse_weather_data: whatever the try block raises is caught (line 112) *)
(* and answered with demo data.                                            *)
ParseWeatherData(data) ==
    IF ExtractWeather(data).kind = "raise" THEN [kind |-> "demo"]
    ELSE ExtractWeather(data)

-----------------------------------------------------------------------------
(* _get_demo_weather_data.  random.randint(a, b) may return every integer  *)
(* of a..b; the model draws the two ends and every RandStride-th value in  *)
(* between.  random.uniform(2.0, 15.0) is drawn in tenths.                 *)

RandStride == 250

RandInt(a, b) == {x \in a..b : x = b \/ (x - a) % RandStride = 0}

DemoDirections == {"N", "NE", "E", "SE", "S", "SW", "W", "NW"}

DemoSeasons == {"Spring", "Summer", "Autumn", "Winter"}

(* datetime.now(): the local calendar date at the time of the call. *)
Today == <<2024, 2, 29>>

DemoRecords(sols, seasons, directions) ==
    {MarsWeatherData(
        3000 + s,
        FormatDate(Today),
        JStr(season),
        TemperatureData(JNum(base_temp - d1), JNum(base_temp + d2), JNum(base_temp)),
        PressureData(JNum(p), JNum(pmn), JNum(pmx)),
        WindData(JDec(w, 10), JStr(dir))) :
        base_temp \in RandInt(-90, -40), d1 \in RandInt(5, 15), d2 \in RandInt(10, 30),
        p \in RandInt(600, 800), pmn \in RandInt(580, 650), pmx \in RandInt(750, 850),
        w \in RandInt(20, 150), dir \in directions, season \in seasons, s \in sols}

(* As DemoWeatherData, with current_sol drawn without the 3000 added. *)
DemoWeatherDataSolUnshifted ==
    DemoRecords({s - 3000 : s \in RandInt(0, 500)}, DemoSeasons, DemoDirections)

DemoWeatherData == DemoRecords(RandInt(0, 500), DemoSeasons, DemoDirections)

-----------------------------------------------------------------------------
(* get_mars_weather.  The transport is what session.get does for this     *)
(* call: it returns a response (status, body) or raises.                  *)

MsgInvalidKey == "Invalid API key. Please check your NASA API key."

MsgRateLimit == "API rate limit exceeded. Please try again later."

MsgTimeout == "Request timed out. Please check your internet connection."

MsgConnection == "Connection error. Please check your internet connection."

(* The classes each exception class is an instance of (requests.exceptions *)
(* and the builtins), as the except clauses test them.                     *)
Ancestors(cls) ==
    CASE cls = "ReadTimeout" ->
           {"ReadTimeout", "Timeout", "RequestException", "Exception"}
      [] cls = "ConnectTimeout" ->
           {"ConnectTimeout", "ConnectionError", "Timeout", "RequestException", "Exception"}
      [] cls = "ConnectionError" ->
           {"ConnectionError", "RequestException", "Exception"}
      [] cls = "SSLError" ->
           {"SSLError", "ConnectionError", "RequestException", "Exception"}
      [] cls = "TooManyRedirects" ->
           {"TooManyRedirects", "RequestException", "Exception"}
      [] cls = "JSONDecodeError" ->
           {"JSONDecodeError", "RequestException", "ValueError", "Exception"}
      [] OTHER -> {cls, "Exception"}

IsInstance(cls, of) == of \in Ancestors(cls)

(* response.json(): the decoded body, or a JSONDecodeError. *)
ResponseJson(body) ==
    IF body.t = "notjson" THEN Raise("JSONDecodeError", "Expecting value")
    ELSE Ok(body)

(* As TryBlock, with every status below 300 taken for a success. *)
TryBlockAny2xx(t) ==
    IF t.kind = "raise" THEN [kind |-> "raise", exc |-> t.exc, msg |-> "transport"]
    ELSE IF t.status < 300
         THEN IF ResponseJson(t.body).ok
              THEN ParseWeatherData(ResponseJson(t.body).v)
              ELSE [kind |-> "raise", exc |-> ResponseJson(t.body).exc,
                    msg |-> ResponseJson(t.body).msg]
    ELSE IF t.status = 403
         THEN [kind |-> "raise", exc |-> "Exception", msg |-> MsgInvalidKey]
    ELSE IF t.status = 429
         THEN [kind |-> "raise", exc |-> "Exception", msg |-> MsgRateLimit]
    ELSE [kind |-> "demo"]

(* The try block, lines 29-50. *)
TryBlock(t) ==
    IF t.kind = "raise" THEN [kind |-> "raise", exc |-> t.exc, msg |-> "transport"]
    ELSE IF t.status = 200
         THEN IF ResponseJson(t.body).ok
              THEN ParseWeatherData(ResponseJson(t.body).v)
              ELSE [kind |-> "raise", exc |-> ResponseJson(t.body).exc,
                    msg |-> ResponseJson(t.body).msg]
    ELSE IF t.status = 403
         THEN [kind |-> "raise", exc |-> "Exception", msg |-> MsgInvalidKey]
    ELSE IF t.status = 429
         THEN [kind |-> "raise", exc |-> "Exception", msg |-> MsgRateLimit]
    ELSE [kind |-> "demo"]

(* As ExceptClauses, with the ConnectionError clause placed first. *)
ExceptClausesConnectionFirst(e) ==
    IF IsInstance(e.exc, "ConnectionError")
    THEN [kind |-> "raise", exc |-> "Exception", msg |-> MsgConnection]
    ELSE IF IsInstance(e.exc, "Timeout")
         THEN [kind |-> "raise", exc |-> "Exception", msg |-> MsgTimeout]
    ELSE IF IsInstance(e.exc, "Exception") THEN [kind |-> "demo"]
    ELSE e

(* As ExceptClauses, without the last clause: what is neither a timeout   *)
(* nor a connection error leaves the function.                            *)
ExceptClausesNoCatchAll(e) ==
    IF IsInstance(e.exc, "Timeout")
    THEN [kind |-> "raise", exc |-> "Exception", msg |-> MsgTimeout]
    ELSE IF IsInstance(e.exc, "ConnectionError")
         THEN [kind |-> "raise", exc |-> "Exception", msg |-> MsgConnection]
    ELSE e

(* The except clauses, lines 52-59, tried in order on what the try block   *)
(* raised; what a clause raises itself leaves the function.                *)
ExceptClauses(e) ==
    IF IsInstance(e.exc, "Timeout")
    THEN [kind |-> "raise", exc |-> "Exception", msg |-> MsgTimeout]
    ELSE IF IsInstance(e.exc, "ConnectionError")
         THEN [kind |-> "raise", exc |-> "Exception", msg |-> MsgConnection]
    ELSE IF IsInstance(e.exc, "Exception") THEN [kind |-> "demo"]
    ELSE e

GetMarsWeather(t) ==
    IF TryBlock(t).kind = "raise" THEN ExceptClauses(TryBlock(t)) ELSE TryBlock(t)

(* The session.get calls of the try block: the one of line 38, which every *)
(* path runs once; _parse_weather_data and _get_demo_weather_data have     *)
(* none.                                                                   *)
GetsInTry(t) == 1

(* The session.get calls of the except clauses (lines 52-59): none. *)
GetsInExcept(e) == 0

(* As GetsIssued, with the request sent once more after a failed attempt. *)
GetsIssuedRetrying(t) ==
    IF TryBlock(t).kind # "record" THEN GetsInTry(t) + GetsInTry(t) ELSE GetsInTry(t)

(* The GET requests one call of get_mars_weather issues. *)
GetsIssued(t) ==
    GetsInTry(t) + (IF TryBlock(t).kind = "raise" THEN GetsInExcept(TryBlock(t)) ELSE 0)

(* The try block of validate_api_key: the status of the response to its   *)
(* GET compared with 200.                                                 *)
ValidateTry(t) ==
    IF t.kind = "raise" THEN Raise(t.exc, "") ELSE Ok(JBool(t.status = 200))

(* As ValidateApiKey, with response.ok in the place of the comparison. *)
ValidateApiKeyNotError(t) ==
    IF t.kind = "raise" THEN Ok(JBool(FALSE)) ELSE Ok(JBool(t.status < 400))

(* validate_api_key: the bare except catches whatever the try block raises. *)
ValidateApiKey(t) ==
    IF ~ValidateTry(t).ok THEN Ok(JBool(FALSE)) ELSE ValidateTry(t)

-----------------------------------------------------------------------------
(* The inputs: what the transport does.  Bodies are built from sol         *)
(* identifiers and per-sol entries.                                        *)

Key610 == <<"6", "1", "0">>

Key600 == <<"6", "0", "0">>

Key1 == <<"1">>

Key007 == <<"0", "0", "7">>

KeyNeg5 == <<"-", "5">>

KeyBlank61 == <<" ", "6", "1", " ">>

KeyHuge == <<"2", "9", "1", "5", "0", "3", "5">>

Key6x == <<"6", "x">>

KeyEmpty == <<>>

(* The object holding the keys of f whose value is not Absent. *)
MkObj(f) == JObj([k \in {j \in DOMAIN f : f[j] # Absent} |-> f[k]])

Triples(a, b, c) ==
    {MkObj([mn |-> x, mx |-> y, av |-> z]) :
        x \in {Absent, a}, y \in {Absent, b}, z \in {Absent, c}}

ATOptions == {Absent} \cup Triples(JDec(-957, 10), JDec(-123, 10), JDec(-602, 10))

PREOptions == {Absent} \cup Triples(JDec(7201, 10), JDec(7688, 10), JDec(7450, 10))

HWSOptions == {Absent, JObj(EmptyMap), MkObj([av |-> JDec(72, 10)])}

WindDir(label) == MkObj([most_common |-> MkObj([compass_point |-> JStr(label)])])

WDOptions == {Absent, JObj(EmptyMap), MkObj([most_common |-> JObj(EmptyMap)]), WindDir("SSW")}

SeasonOptions == {Absent, JStr("winter")}

Entry(at, pre, hws, wd, season, first_utc) ==
    MkObj([AT |-> at, PRE |-> pre, HWS |-> hws, WD |-> wd, Season |-> season,
           First_UTC |-> first_utc])

(* Every combination of present and missing measurements. *)
FieldEntries ==
    {Entry(at, pre, hws, wd, se, Absent) :
        at \in ATOptions, pre \in PREOptions, hws \in HWSOptions,
        wd \in WDOptions, se \in SeasonOptions}

EntryA ==
    Entry(MkObj([mn |-> JDec(-957, 10), mx |-> JDec(-123, 10), av |-> JDec(-602, 10)]),
          MkObj([mn |-> JDec(7201, 10), mx |-> JDec(7688, 10), av |-> JDec(7450, 10)]),
          MkObj([av |-> JDec(72, 10)]), WindDir("SSW"), JStr("winter"),
          JTime(2020, 7, 29))

EntryB ==
    Entry(MkObj([mn |-> JNum(-101), mx |-> JNum(-9), av |-> JNum(-63)]),
          MkObj([mn |-> JNum(705), mx |-> JNum(760), av |-> JNum(731)]),
          MkObj([av |-> JDec(43, 10)]), WindDir("WNW"), JStr("summer"),
          JTime(2019, 1, 1))

EntryBare == JObj(EmptyMap)

SampleEntries == {EntryA, EntryB, EntryBare}

KeyLists ==
    {<<Key610>>, <<Key600, Key610>>, <<Key610, Key600>>, <<Key1>>, <<Key1, Key610>>,
     <<Key610, Key1>>, <<Key007>>, <<KeyNeg5>>, <<KeyBlank61>>}

(* The entry stored under "1" when the list of sols does not name it. *)
AnchorOptions ==
    {Absent, EntryBare,
     Entry(Absent, Absent, Absent, Absent, Absent, JTime(2019, 12, 30)),
     Entry(Absent, Absent, Absent, Absent, Absent, JTime(2020, 2, 28))}

SolsOf(keys, entries, anchor) ==
    [k \in Range(keys) \cup (IF anchor = Absent THEN {} ELSE {Key1}) |->
        IF k \in Range(keys) THEN entries[k] ELSE anchor]

(* Bodies whose extraction succeeds. *)
GoodBodies ==
    {Payload(JList(<<Key610>>), SolsOf(<<Key610>>, [k \in {Key610} |-> e], Absent)) :
        e \in FieldEntries}
    \cup UNION {{Payload(JList(ks), SolsOf(ks, es, anchor)) :
                    es \in [Range(ks) -> SampleEntries], anchor \in AnchorOptions} :
                ks \in KeyLists}

Body(keys, entry, anchor) ==
    Payload(JList(keys), SolsOf(keys, [k \in Range(keys) |-> entry], anchor))

(* Bodies with one defect each. *)
BadBodies ==
    {[t |-> "notjson"],
     JList(<<>>),
     Payload(Absent, SolsOf(<<Key610>>, [k \in {Key610} |-> EntryA], Absent)),
     Payload(Absent, SolsOf(<<>>, <<>>, Absent)),
     Payload(JList(<<>>), SolsOf(<<Key610>>, [k \in {Key610} |-> EntryB], Absent)),
     Payload(JNull, SolsOf(<<Key610>>, [k \in {Key610} |-> EntryA], Absent)),
     Payload(JList(<<Key600, Key610>>), SolsOf(<<Key600>>, [k \in {Key600} |-> EntryA], Absent)),
     Body(<<Key6x>>, EntryA, Absent),
     Body(<<KeyEmpty>>, EntryA, Absent),
     Body(<<KeyHuge>>, EntryA, Absent),
     Body(<<Key610>>, JNum(3), Absent),
     Body(<<Key610>>, Entry(JNum(-60), Absent, Absent, Absent, Absent, Absent), Absent),
     Body(<<Key610>>, Entry(Absent, JList(<<>>), Absent, Absent, Absent, Absent), Absent),
     Body(<<Key610>>, Entry(Absent, Absent, JStr("calm"), Absent, Absent, Absent), Absent),
     Body(<<Key610>>, Entry(Absent, Absent, Absent, JNull, Absent, Absent), Absent),
     Body(<<Key610>>, Entry(Absent, Absent, Absent, MkObj([most_common |-> JNull]),
                            Absent, Absent), Absent),
     Body(<<Key610>>, EntryA, JNull),
     Body(<<Key610>>, EntryA,
          Entry(Absent, Absent, Absent, Absent, Absent, JStr("yesterday"))),
     Body(<<Key610>>, EntryA,
          Entry(Absent, Absent, Absent, Absent, Absent, JTime(2019, 2, 30))),
     Body(<<Key610>>, EntryA,
          Entry(Absent, Absent, Absent, Absent, Absent, JNum(1543276800)))}

Bodies == GoodBodies \cup BadBodies

NoBody == [t |-> "notjson"]

OtherStatuses == {203, 500}

(* What a response that is not a 200 may carry: nothing that decodes, or a *)
(* body that would parse.                                                  *)
ErrorBodies == {NoBody, Body(<<Key610>>, EntryA, Absent)}

TransportExceptions ==
    {"ReadTimeout", "ConnectTimeout", "ConnectionError", "SSLError",
     "TooManyRedirects", "UnicodeError"}

Transports ==
    {[kind |-> "response", status |-> 200, body |-> b] : b \in Bodies}
    \cup {[kind |-> "response", status |-> st, body |-> b] :
            st \in {403, 429} \cup OtherStatuses, b \in ErrorBodies}
    \cup {[kind |-> "raise", exc |-> e] : e \in TransportExceptions}

-----------------------------------------------------------------------------
(* The state machine: one call of get_mars_weather per round.              *)

NoResult == [kind |-> "none"]

NoRecord == [kind |-> "none"]

(* No record of utils.py is in use. *)
RecordsIdle ==
    /\ made = NoRecord
    /\ self = NoRecord
    /\ ret = NoResult
    /\ step = "idle"

NoDisk == [kind |-> "none"]

(* The persistence functions are not in use. *)
StoreIdle ==
    /\ disk = NoDisk
    /\ stored = NoRecord

NoApp == [kind |-> "none"]

(* No application is running. *)
AppIdle ==
    /\ ui = NoApp
    /\ current_weather = NoApp
    /\ mainloop = "none"
    /\ after_queue = <<>>
    /\ threads = <<>>
    /\ writers = NoApp

Init ==
    /\ pc = "ready"
    /\ transport \in Transports
    /\ result = NoResult
    /\ gets = 0
    /\ RecordsIdle
    /\ StoreIdle
    /\ AppIdle

(* What the caller gets: the record returned, parsed or demo data, or the *)
(* exception raised.                                                       *)
Outcome(o) ==
    \/ /\ o.kind = "record"
       /\ result' = [kind |-> "returned", rec |-> o.rec, source |-> "parsed"]
    \/ /\ o.kind = "demo"
       /\ \E d \in DemoWeatherData :
             result' = [kind |-> "returned", rec |-> d, source |-> "demo"]
    \/ /\ o.kind = "raise"
       /\ result' = [kind |-> "raised", exc |-> o.exc, msg |-> o.msg]

(* get_mars_weather(), from the call to its return or raise. *)
Call ==
    /\ pc = "ready"
    /\ Outcome(GetMarsWeather(transport))
    /\ gets' = gets + GetsIssued(transport)
    /\ pc' = "done"
    /\ UNCHANGED <<transport, recordVars, storeVars, appVars>>

(* The caller takes the outcome; the client keeps nothing between calls. *)
Return ==
    /\ pc = "done"
    /\ pc' = "ready"
    /\ result' = NoResult
    /\ gets' = 0
    /\ UNCHANGED <<transport, recordVars, storeVars, appVars>>

Next == Call \/ Return

Spec == Init /\ [][Next]_vars

-----------------------------------------------------------------------------
(* validate_api_key: one call per round, on the same client. *)

(* The statuses the health-check endpoint may answer with. *)
KeyStatuses == 200..599

(* What may leave session.get; KeyboardInterrupt is no Exception. *)
KeyExceptions == TransportExceptions \cup {"KeyboardInterrupt"}

KeyTransports ==
    {[kind |-> "response", status |-> st, body |-> NoBody] : st \in KeyStatuses}
    \cup {[kind |-> "raise", exc |-> e] : e \in KeyExceptions}

InitKey ==
    /\ pc = "ready"
    /\ transport \in KeyTransports
    /\ result = NoResult
    /\ gets = 0
    /\ RecordsIdle
    /\ StoreIdle
    /\ AppIdle

(* validate_api_key(), from the call to its return; its one session.get  *)
(* is line 166.                                                           *)
CallValidate ==
    /\ pc = "ready"
    /\ result' = [kind |-> "validated", out |-> ValidateApiKey(transport)]
    /\ gets' = gets + 1
    /\ pc' = "done"
    /\ UNCHANGED <<transport, recordVars, storeVars, appVars>>

NextKey == CallValidate \/ Return

SpecKey == InitKey /\ [][NextKey]_vars

-----------------------------------------------------------------------------
(* Vocabulary of the properties. *)

Done == pc = "done"

Status(st) == transport.kind = "response" /\ transport.status = st

Returned == result.kind = "returned"

RaisedWith(msg) == result.kind = "raised" /\ result.msg = msg

IsNumber(x) == x.t = "num" /\ x.scale = 1

(* The ranges of a synthetic record. *)
SyntheticRanges(r) ==
    /\ r.sol \in 3000..3500
    /\ r.season \in {JStr(x) : x \in {"Spring", "Summer", "Autumn", "Winter"}}
    /\ r.wind.wind_direction
          \in {JStr(x) : x \in {"N", "NE", "E", "SE", "S", "SW", "W", "NW"}}
    /\ r.wind.wind_speed.t = "num" /\ r.wind.wind_speed.scale = 10
    /\ r.wind.wind_speed.v \in 20..150
    /\ IsNumber(r.temperature.avg_temp) /\ r.temperature.avg_temp.v \in -90..-40
    /\ IsNumber(r.temperature.min_temp)
    /\ r.temperature.avg_temp.v - r.temperature.min_temp.v \in 5..15
    /\ IsNumber(r.temperature.max_temp)
    /\ r.temperature.max_temp.v - r.temperature.avg_temp.v \in 10..30
    /\ IsNumber(r.pressure.pressure) /\ r.pressure.pressure.v \in 600..800
    /\ IsNumber(r.pressure.min_pressure) /\ r.pressure.min_pressure.v \in 580..650
    /\ IsNumber(r.pressure.max_pressure) /\ r.pressure.max_pressure.v \in 750..850

SyntheticReturned ==
    /\ Returned
    /\ result.source = "demo"
    /\ SyntheticRanges(result.rec)

-----------------------------------------------------------------------------
(* C1: a 403 response makes get_mars_weather fail with the invalid-key     *)
(* error, which reaches the caller; no record is returned for it.          *)
C1_AuthErrorReachesCaller ==
    Done /\ Status(403) => RaisedWith(MsgInvalidKey)

(* C2: a 429 response makes get_mars_weather fail with the rate-limit      *)
(* error, which reaches the caller; no record is returned for it.          *)
C2_RateLimitReachesCaller ==
    Done /\ Status(429) => RaisedWith(MsgRateLimit)

(* The transport failures that are timeouts, and the connection failures  *)
(* that are not.                                                           *)
TimeoutKinds == {"ReadTimeout", "ConnectTimeout"}

ConnectionKinds == {"ConnectionError", "SSLError"}

(* C3: a timeout of the transport, a connect-timeout included, reaches the *)
(* caller as the timeout error; a connection failure that is no timeout    *)
(* reaches it as the connection error; neither returns a record.           *)
C3_NetworkErrorsPropagate ==
    Done /\ transport.kind = "raise" =>
        /\ transport.exc \in TimeoutKinds => RaisedWith(MsgTimeout)
        /\ transport.exc \in ConnectionKinds => RaisedWith(MsgConnection)

C3_Witness ==
    Done /\ transport.kind = "raise" /\ transport.exc = "ConnectTimeout"
         /\ RaisedWith(MsgTimeout)

(* C4: every status other than 200, 403 and 429 gives a synthetic record   *)
(* within the synthetic ranges, whatever the body, and nothing is raised.  *)
C4_OtherStatusSynthetic ==
    Done /\ transport.kind = "response" /\ transport.status \notin {200, 403, 429}
        => SyntheticReturned

C4_Witness ==
    Done /\ Status(500) /\ transport.body # NoBody /\ SyntheticReturned

-----------------------------------------------------------------------------
(* Shapes of a 200 body, as the properties of the parser name them. *)

ListsSols(b) == b.t = "obj" /\ b.sol_keys.t = "list" /\ b.sol_keys.items # <<>>

LastKey(b) == b.sol_keys.items[Len(b.sol_keys.items)]

MissingLatest(b) == ListsSols(b) /\ LastKey(b) \notin DOMAIN b.sols

(* Blanks, at most one sign, one or more digits, blanks. *)
IsIntegerString(k) ==
    \E a \in 1..Len(k), z \in 1..Len(k) :
        /\ a <= z
        /\ \A i \in 1..(a - 1) : k[i] = " " \/ (i = a - 1 /\ k[i] \in {"+", "-"})
        /\ \A i \in a..z : k[i] \in Digits
        /\ \A i \in (z + 1)..Len(k) : k[i] = " "

IsMapping(v) == v.t = "obj"

Has(o, key) == key \in DOMAIN o.m

(* A value of the entry that ought to be a mapping and is not. *)
NonMappingIn(e) ==
    \/ ~IsMapping(e)
    \/ \E key \in {"AT", "PRE", "HWS", "WD"} : Has(e, key) /\ ~IsMapping(e.m[key])
    \/ /\ Has(e, "WD") /\ IsMapping(e.m["WD"])
       /\ Has(e.m["WD"], "most_common") /\ ~IsMapping(e.m["WD"].m["most_common"])

WellFormedEntry(b) ==
    ListsSols(b) /\ LastKey(b) \in DOMAIN b.sols /\ ~NonMappingIn(b.sols[LastKey(b)])

ParseableTime(v) == v.t = "str" /\ "iso" \in DOMAIN v /\ ValidYmd(v.y, v.m, v.d)

HasAnchorTime(b) ==
    Key1 \in DOMAIN b.sols /\ IsMapping(b.sols[Key1]) /\ Has(b.sols[Key1], "First_UTC")

BadFirstUTC(b) ==
    b.t = "obj" /\ HasAnchorTime(b) /\ ~ParseableTime(b.sols[Key1].m["First_UTC"])

AnchorUsable(b) ==
    \/ Key1 \notin DOMAIN b.sols
    \/ IsMapping(b.sols[Key1]) /\ ~BadFirstUTC(b)

(* The ordinal of the day the dates are counted from. *)
AnchorOrdinal(b) ==
    IF HasAnchorTime(b)
    THEN YmdToOrd(b.sols[Key1].m["First_UTC"].y, b.sols[Key1].m["First_UTC"].m,
                  b.sols[Key1].m["First_UTC"].d)
    ELSE YmdToOrd(2018, 11, 27)

DateRepresentable(b) ==
    AnchorOrdinal(b) + PyInt(LastKey(b)).v \in 1..MaxOrdinal

(* The value under key, or the default. *)
At(o, key, default) == IF Has(o, key) THEN o.m[key] ELSE default

Sub(e, key) == At(e, key, JObj(EmptyMap))

ParsedReturned == Returned /\ result.source = "parsed"

(* C6: on a 200, a body that is not JSON, names a latest sol it has no     *)
(* entry for, names one that is no integer string, has an unparseable      *)
(* First_UTC, or holds a non-mapping where a mapping is read, gives a      *)
(* synthetic record; nothing is raised.                                    *)
C6_ParseFailureSynthetic ==
    Done /\ Status(200)
         /\ \/ transport.body.t = "notjson"
            \/ MissingLatest(transport.body)
            \/ ListsSols(transport.body) /\ ~IsIntegerString(LastKey(transport.body))
            \/ ListsSols(transport.body) /\ BadFirstUTC(transport.body)
            \/ /\ ListsSols(transport.body)
               /\ LastKey(transport.body) \in DOMAIN transport.body.sols
               /\ NonMappingIn(transport.body.sols[LastKey(transport.body)])
        => SyntheticReturned

C6_Witness ==
    /\ Done /\ Status(200) /\ ListsSols(transport.body)
    /\ LastKey(transport.body) \in DOMAIN transport.body.sols
    /\ Has(transport.body.sols[LastKey(transport.body)], "WD")
    /\ NonMappingIn(transport.body.sols[LastKey(transport.body)])
    /\ SyntheticReturned

(* The record is the one of the last sol listed: its number, and the       *)
(* measurements of its entry.                                              *)
RecordOfLastSol(b, r) ==
    /\ r.sol = PyInt(LastKey(b)).v
    /\ r.temperature =
         TemperatureData(At(Sub(b.sols[LastKey(b)], "AT"), "mn", JNum(-80)),
                         At(Sub(b.sols[LastKey(b)], "AT"), "mx", JNum(-20)),
                         At(Sub(b.sols[LastKey(b)], "AT"), "av", JNum(-50)))
    /\ r.pressure =
         PressureData(At(Sub(b.sols[LastKey(b)], "PRE"), "av", JNum(650)),
                      At(Sub(b.sols[LastKey(b)], "PRE"), "mn", JNum(600)),
                      At(Sub(b.sols[LastKey(b)], "PRE"), "mx", JNum(700)))
    /\ r.wind =
         WindData(At(Sub(b.sols[LastKey(b)], "HWS"), "av", JDec(55, 10)),
                  At(Sub(Sub(b.sols[LastKey(b)], "WD"), "most_common"),
                     "compass_point", JStr("NE")))
    /\ r.season = At(b.sols[LastKey(b)], "Season", JStr("Unknown"))

(* C7, as claimed: a body with a non-empty sol_keys whose last element is  *)
(* an integer string with a well-formed entry gives the record of that     *)
(* last element.                                                           *)
C7_LastSolOfWellFormedEntry ==
    Done /\ Status(200) /\ ListsSols(transport.body)
         /\ IsIntegerString(LastKey(transport.body))
         /\ WellFormedEntry(transport.body)
        => ParsedReturned /\ RecordOfLastSol(transport.body, result.rec)

(* C7, amended: the same, for the bodies whose date can be computed: the   *)
(* entry keyed "1", if there is one, is a mapping whose First_UTC, if      *)
(* there is one, parses, and that day plus the sol number of days is a     *)
(* date of the years 1 to 9999.  The last element in list order is taken,  *)
(* also when a numerically larger identifier precedes it.                  *)
C7_LastSolWhenDateComputes ==
    Done /\ Status(200) /\ ListsSols(transport.body)
         /\ IsIntegerString(LastKey(transport.body))
         /\ WellFormedEntry(transport.body)
         /\ AnchorUsable(transport.body)
         /\ DateRepresentable(transport.body)
        => ParsedReturned /\ RecordOfLastSol(transport.body, result.rec)

C7_Witness ==
    /\ Done /\ Status(200)
    /\ transport.body.t = "obj"
    /\ transport.body.sol_keys = JList(<<Key610, Key600>>)
    /\ transport.body.sols[Key610] = EntryA
    /\ transport.body.sols[Key600] = EntryB
    /\ ParsedReturned
    /\ result.rec.sol = 600
    /\ result.rec.wind.wind_direction = JStr("WNW")

(* C8: a body without sol_keys, or with an empty one, gives a record       *)
(* within the synthetic ranges, whatever else it holds; nothing is raised. *)
C8_NoSolKeysSynthetic ==
    Done /\ Status(200) /\ transport.body.t = "obj"
         /\ transport.body.sol_keys \in {Absent, JList(<<>>)}
        => SyntheticReturned

C8_Witness ==
    /\ Done /\ Status(200) /\ transport.body.t = "obj"
    /\ transport.body.sol_keys = Absent
    /\ Key610 \in DOMAIN transport.body.sols
    /\ SyntheticReturned

(* Present: copied; missing: the default. *)
CopiedOrDefault(o, key, default, got) ==
    /\ Has(o, key) => got = o.m[key]
    /\ ~Has(o, key) => got = default

(* C9: each measurement missing from the latest sol's entry takes its      *)
(* default and each present one is copied; a missing measurement never     *)
(* makes the record synthetic.                                             *)
C9_DefaultsForMissingFields ==
    Done /\ Status(200) /\ ListsSols(transport.body)
         /\ IsIntegerString(LastKey(transport.body))
         /\ WellFormedEntry(transport.body)
         /\ AnchorUsable(transport.body)
         /\ DateRepresentable(transport.body)
        => /\ ParsedReturned
           /\ CopiedOrDefault(Sub(transport.body.sols[LastKey(transport.body)], "AT"),
                              "mn", JNum(-80), result.rec.temperature.min_temp)
           /\ CopiedOrDefault(Sub(transport.body.sols[LastKey(transport.body)], "AT"),
                              "mx", JNum(-20), result.rec.temperature.max_temp)
           /\ CopiedOrDefault(Sub(transport.body.sols[LastKey(transport.body)], "AT"),
                              "av", JNum(-50), result.rec.temperature.avg_temp)
           /\ CopiedOrDefault(Sub(transport.body.sols[LastKey(transport.body)], "PRE"),
                              "mn", JNum(600), result.rec.pressure.min_pressure)
           /\ CopiedOrDefault(Sub(transport.body.sols[LastKey(transport.body)], "PRE"),
                              "mx", JNum(700), result.rec.pressure.max_pressure)
           /\ CopiedOrDefault(Sub(transport.body.sols[LastKey(transport.body)], "PRE"),
                              "av", JNum(650), result.rec.pressure.pressure)
           /\ CopiedOrDefault(Sub(transport.body.sols[LastKey(transport.body)], "HWS"),
                              "av", JDec(55, 10), result.rec.wind.wind_speed)
           /\ CopiedOrDefault(transport.body.sols[LastKey(transport.body)],
                              "Season", JStr("Unknown"), result.rec.season)
           /\ CopiedOrDefault(
                 Sub(Sub(transport.body.sols[LastKey(transport.body)], "WD"), "most_common"),
                 "compass_point", JStr("NE"), result.rec.wind.wind_direction)

C9_Witness ==
    /\ Done /\ Status(200) /\ ListsSols(transport.body)
    /\ LastKey(transport.body) = Key610
    /\ transport.body.sols[Key610] =
         Entry(MkObj([mn |-> JDec(-957, 10)]), Absent, JObj(EmptyMap),
               MkObj([most_common |-> JObj(EmptyMap)]), Absent, Absent)
    /\ ParsedReturned
    /\ result.rec.temperature = TemperatureData(JDec(-957, 10), JNum(-20), JNum(-50))
    /\ result.rec.pressure = PressureData(JNum(650), JNum(600), JNum(700))
    /\ result.rec.wind = WindData(JDec(55, 10), JStr("NE"))
    /\ result.rec.season = JStr("Unknown")

TwoDigits(n) == ToString(n \div 10) \o ToString(n % 10)

(* The text YYYY-MM-DD of the day with this ordinal. *)
IsDateText(text, ord) ==
    \E y \in ((ord \div 366) + 1)..((ord \div 365) + 1), m \in 1..12, d \in 1..31 :
        /\ y \in 1000..9999
        /\ ValidYmd(y, m, d)
        /\ YmdToOrd(y, m, d) = ord
        /\ text = ToString(y) \o "-" \o TwoDigits(m) \o "-" \o TwoDigits(d)

(* C10: the terrestrial date of a parsed record is the day of the First_UTC *)
(* of the entry keyed "1" (2018-11-27 without one) plus as many days as the *)
(* latest sol's number, written YYYY-MM-DD; the First_UTC of the latest     *)
(* sol's own entry plays no part.                                           *)
C10_DateFromSolOneAnchor ==
    Done /\ Status(200) /\ ParsedReturned
        => IsDateText(result.rec.terrestrial_date,
                      AnchorOrdinal(transport.body) + PyInt(LastKey(transport.body)).v)

C10_Witness ==
    /\ Done /\ Status(200) /\ ParsedReturned
    /\ LastKey(transport.body) = Key610
    /\ transport.body.sols[Key610] = EntryA
    /\ HasAnchorTime(transport.body)
    /\ transport.body.sols[Key1].m["First_UTC"] = JTime(2019, 12, 30)
    /\ result.rec.terrestrial_date = "2021-08-31"

-----------------------------------------------------------------------------
(* The call went down a path that ends in _get_demo_weather_data(). *)
DemoPath == Done /\ GetMarsWeather(transport).kind = "demo"

(* C11: _get_demo_weather_data never fails, and every record it produces   *)
(* has sol in 3000..3500, a season of the four, a wind direction of the    *)
(* eight-point compass, an integer average temperature in -90..-40 with    *)
(* min = avg - d1 (d1 in 5..15) and max = avg + d2 (d2 in 10..30), and the *)
(* pressures each in its own range: average 600..800, min 580..650, max    *)
(* 750..850, with no order among them.                                     *)
C11_DemoRecordRanges ==
    DemoPath =>
        /\ result.kind = "returned" /\ result.source = "demo"
        /\ result.rec.sol - 3000 \in 0..500
        /\ result.rec.season \in {JStr("Spring"), JStr("Summer"), JStr("Autumn"),
                                  JStr("Winter")}
        /\ result.rec.wind.wind_direction
              \in {JStr("N"), JStr("NE"), JStr("E"), JStr("SE"), JStr("S"),
                   JStr("SW"), JStr("W"), JStr("NW")}
        /\ \A f \in {"min_temp", "max_temp", "avg_temp"} :
              IsNumber(result.rec.temperature[f])
        /\ result.rec.temperature.avg_temp.v \in -90..-40
        /\ result.rec.temperature.avg_temp.v - result.rec.temperature.min_temp.v
              \in 5..15
        /\ result.rec.temperature.max_temp.v - result.rec.temperature.avg_temp.v
              \in 10..30
        /\ \A f \in {"pressure", "min_pressure", "max_pressure"} :
              IsNumber(result.rec.pressure[f])
        /\ result.rec.pressure.pressure.v \in 600..800
        /\ result.rec.pressure.min_pressure.v \in 580..650
        /\ result.rec.pressure.max_pressure.v \in 750..850

(* A synthetic record whose min pressure is above its average pressure. *)
C11_Witness ==
    /\ DemoPath
    /\ Returned
    /\ result.rec.pressure.min_pressure.v > result.rec.pressure.pressure.v

-----------------------------------------------------------------------------
(* The records of utils.py and their methods.  A number is the exact       *)
(* fraction v/scale, kept in lowest terms by Num; Python computes the same *)
(* expressions in binary floating point.  None is JNull.  A method is      *)
(* given as what it does to the object it is called on and what it hands   *)
(* back: [self |-> the object after the call, ret |-> Ok(value) or the     *)
(* exception, fresh |-> the value is an object made by the call].          *)

RECURSIVE Gcd(_, _)
Gcd(a, b) == IF b = 0 THEN a ELSE Gcd(b, a % b)

Abs(x) == IF x < 0 THEN 0 - x ELSE x

Num(n, s) ==
    [t |-> "num", v |-> n \div Gcd(Abs(n), s), scale |-> s \div Gcd(Abs(n), s)]

(* c * 9/5 + 32 *)
Fahrenheit(c) ==
    IF c.t # "num" THEN Raise("TypeError", "unsupported operand type(s)")
    ELSE Ok(Num(9 * c.v + 160 * c.scale, 5 * c.scale))

(* As ToFahrenheit, converting the fields of the object itself. *)
ToFahrenheitInPlace(t) ==
    LET mn == Fahrenheit(t.min_temp)
        mx == Fahrenheit(t.max_temp)
        av == Fahrenheit(t.avg_temp)
    IN  IF ~mn.ok THEN [self |-> t, ret |-> mn, fresh |-> FALSE]
        ELSE IF ~mx.ok THEN [self |-> t, ret |-> mx, fresh |-> FALSE]
        ELSE IF ~av.ok THEN [self |-> t, ret |-> av, fresh |-> FALSE]
        ELSE [self |-> TemperatureData(mn.v, mx.v, av.v),
              ret |-> Ok(TemperatureData(mn.v, mx.v, av.v)), fresh |-> FALSE]

(* TemperatureData.to_fahrenheit *)
ToFahrenheit(t) ==
    LET mn == Fahrenheit(t.min_temp)
        mx == Fahrenheit(t.max_temp)
        av == Fahrenheit(t.avg_temp)
    IN  IF ~mn.ok THEN [self |-> t, ret |-> mn, fresh |-> FALSE]
        ELSE IF ~mx.ok THEN [self |-> t, ret |-> mx, fresh |-> FALSE]
        ELSE IF ~av.ok THEN [self |-> t, ret |-> av, fresh |-> FALSE]
        ELSE [self |-> t, ret |-> Ok(TemperatureData(mn.v, mx.v, av.v)),
              fresh |-> TRUE]

(* str.lower() on the unit names in use *)
Lower(unit) ==
    CASE unit \in {"Fahrenheit", "FAHRENHEIT", "fahrenheit"} -> "fahrenheit"
      [] unit \in {"Celsius", "celsius"} -> "celsius"
      [] OTHER -> unit

(* The tenths nearest to |v/scale|, a tie going to the even one. *)
Tenths(x) ==
    LET q == (10 * Abs(x.v)) \div x.scale
        r == (10 * Abs(x.v)) % x.scale
    IN  IF 2 * r > x.scale \/ (2 * r = x.scale /\ q % 2 = 1) THEN q + 1 ELSE q

(* f"{x:.1f}{unit_symbol}" *)
Fixed1(x, unit_symbol) ==
    IF x.t # "num" THEN Raise("TypeError", "unsupported format string")
    ELSE Ok((IF x.v < 0 THEN "-" ELSE "") \o ToString(Tenths(x) \div 10) \o "."
            \o ToString(Tenths(x) % 10) \o unit_symbol)

(* Lines 36-40: the dictionary of the three formatted values. *)
FormattedTemps(temp_data, unit_symbol) ==
    LET mn == Fixed1(temp_data.min_temp, unit_symbol)
        mx == Fixed1(temp_data.max_temp, unit_symbol)
        av == Fixed1(temp_data.avg_temp, unit_symbol)
    IN  IF ~mn.ok THEN mn
        ELSE IF ~mx.ok THEN mx
        ELSE IF ~av.ok THEN av
        ELSE Ok(JObj([min |-> JStr(mn.v), max |-> JStr(mx.v), avg |-> JStr(av.v)]))

(* TemperatureData.format_temp *)
FormatTemp(t, unit) ==
    IF Lower(unit) = "fahrenheit"
    THEN [self |-> ToFahrenheit(t).self,
          ret |-> IF ToFahrenheit(t).ret.ok
                  THEN FormattedTemps(ToFahrenheit(t).ret.v, "°F")
                  ELSE ToFahrenheit(t).ret,
          fresh |-> TRUE]
    ELSE [self |-> t, ret |-> FormattedTemps(t, "°C"), fresh |-> TRUE]

(* The direction_map literal of WindData.get_wind_direction_degrees. *)
DirectionMap ==
    [N |-> JNum(0), NNE |-> JDec(225, 10), NE |-> JNum(45), ENE |-> JDec(675, 10),
     E |-> JNum(90), ESE |-> JDec(1125, 10), SE |-> JNum(135), SSE |-> JDec(1575, 10),
     S |-> JNum(180), SSW |-> JDec(2025, 10), SW |-> JNum(225), WSW |-> JDec(2475, 10),
     W |-> JNum(270), WNW |-> JDec(2925, 10), NW |-> JNum(315), NNW |-> JDec(3375, 10)]

(* The direction_map literal of MarsWeatherUI.get_direction_degrees. *)
UIDirectionMap ==
    [N |-> JNum(0), NNE |-> JDec(225, 10), NE |-> JNum(45), ENE |-> JDec(675, 10),
     E |-> JNum(90), ESE |-> JDec(1125, 10), SE |-> JNum(135), SSE |-> JDec(1575, 10),
     S |-> JNum(180), SSW |-> JDec(2025, 10), SW |-> JNum(225), WSW |-> JDec(2475, 10),
     W |-> JNum(270), WNW |-> JDec(2925, 10), NW |-> JNum(315), NNW |-> JDec(3375, 10)]

(* d.get(key, default) on a dictionary literal whose keys are strings: a   *)
(* key that cannot be hashed (a list, a dictionary) is a TypeError.        *)
MapGet(d, key, default) ==
    IF key.t \in {"obj", "list"} THEN Raise("TypeError", "unhashable type")
    ELSE IF key.t = "str" /\ "s" \in DOMAIN key /\ key.s \in DOMAIN d THEN Ok(d[key.s])
    ELSE Ok(default)

(* WindData.get_wind_direction_degrees: direction_map.get(wind_direction) *)
GetWindDirectionDegrees(w) == MapGet(DirectionMap, w.wind_direction, JNull)

(* MarsWeatherUI.get_direction_degrees: direction_map.get(direction, 0) *)
GetDirectionDegrees(direction) == MapGet(UIDirectionMap, direction, JNum(0))

(* Python truth of a direction: None and the empty string are false. *)
Truthy(v) == ~Falsy(v)

(* MarsWeatherUI.draw_wind_compass, as what it leaves on the canvas: the   *)
(* circle, the four labels and the centre point always; the arrow when the *)
(* direction is known, pointing to the degrees looked up, its length       *)
(* min(35, max(10, 3 * speed)).                                            *)
DrawWindCompass(direction, speed) ==
    IF Truthy(direction) /\ direction # JStr("Unknown")
    THEN IF ~GetDirectionDegrees(direction).ok THEN GetDirectionDegrees(direction)
         ELSE IF GetDirectionDegrees(direction).v # JNull
              THEN Ok([arrow |-> TRUE, degrees |-> GetDirectionDegrees(direction).v])
         ELSE Ok([arrow |-> FALSE])
    ELSE Ok([arrow |-> FALSE])

(* dataclasses.asdict: a dictionary keyed by the field names, the nested   *)
(* records turned into dictionaries in the same way, the other values      *)
(* copied.                                                                 *)
ToDict(r) ==
    JObj([sol |-> r.sol, terrestrial_date |-> r.terrestrial_date, season |-> r.season,
          temperature |-> JObj(r.temperature), pressure |-> JObj(r.pressure),
          wind |-> JObj(r.wind)])

(* data[key] *)
Index(data, key) ==
    IF data.t # "obj" THEN Raise("TypeError", "not subscriptable")
    ELSE IF key \notin DOMAIN data.m THEN Raise("KeyError", key)
    ELSE Ok(data.m[key])

(* A dataclass called with the entries of kwargs as keyword arguments: of  *)
(* its fields the required ones have no default, the others default to    *)
(* None.                                                                   *)
Construct(fields, required, kwargs) ==
    IF ~kwargs.ok THEN kwargs
    ELSE IF kwargs.v.t # "obj"
         THEN Raise("TypeError", "argument after ** must be a mapping")
    ELSE IF ~(DOMAIN kwargs.v.m \subseteq fields)
         THEN Raise("TypeError", "got an unexpected keyword argument")
    ELSE IF ~(required \subseteq DOMAIN kwargs.v.m)
         THEN Raise("TypeError", "missing required positional argument")
    ELSE Ok([f \in fields |-> IF f \in DOMAIN kwargs.v.m THEN kwargs.v.m[f] ELSE JNull])

(* As FromDict, with 0 and "Unknown" in the place of missing values. *)
FromDictDefaulting(data) ==
    LET sol == Index(data, "sol")
        date == Index(data, "terrestrial_date")
        season == Index(data, "season")
        temperature == Construct({"min_temp", "max_temp", "avg_temp"},
                                 {"min_temp", "max_temp", "avg_temp"},
                                 Index(data, "temperature"))
        pressure == Construct({"pressure", "min_pressure", "max_pressure"},
                              {"pressure"}, Index(data, "pressure"))
        wind == Construct({"wind_speed", "wind_direction"}, {"wind_speed"},
                          Index(data, "wind"))
        OrElse(v, d) == IF v = JNull THEN d ELSE v
    IN  Sequenced(<<sol, date, season, temperature, pressure, wind>>,
                  MarsWeatherData(sol.v, date.v, season.v, temperature.v,
                      PressureData(pressure.v.pressure,
                                   OrElse(pressure.v.min_pressure, JNum(0)),
                                   OrElse(pressure.v.max_pressure, JNum(0))),
                      WindData(wind.v.wind_speed,
                               OrElse(wind.v.wind_direction, JStr("Unknown")))))

(* MarsWeatherData.from_dict *)
FromDict(data) ==
    LET sol == Index(data, "sol")
        date == Index(data, "terrestrial_date")
        season == Index(data, "season")
        temperature == Construct({"min_temp", "max_temp", "avg_temp"},
                                 {"min_temp", "max_temp", "avg_temp"},
                                 Index(data, "temperature"))
        pressure == Construct({"pressure", "min_pressure", "max_pressure"},
                              {"pressure"}, Index(data, "pressure"))
        wind == Construct({"wind_speed", "wind_direction"}, {"wind_speed"},
                          Index(data, "wind"))
    IN  Sequenced(<<sol, date, season, temperature, pressure, wind>>,
                  MarsWeatherData(sol.v, date.v, season.v, temperature.v, pressure.v,
                                  wind.v))

-----------------------------------------------------------------------------
(* The records the methods are called on. *)

Compass16 ==
    <<"N", "NNE", "NE", "ENE", "E", "ESE", "SE", "SSE",
      "S", "SSW", "SW", "WSW", "W", "WNW", "NW", "NNW">>

(* Directions a record may hold: none, a compass point, another label. *)
DirectionSamples ==
    {JNull} \cup {JStr(l) : l \in Range(Compass16) \cup {"Unknown", "XYZ", "sw", ""}}

TemperatureSamples ==
    {TemperatureData(JNum(-80), JNum(-20), JNum(-50)),
     TemperatureData(JNum(-105), JNum(-60), JNum(-90)),
     TemperatureData(JDec(-957, 10), JDec(-123, 10), JDec(-602, 10)),
     TemperatureData(JNum(-40), JNum(100), JNum(0))}

PressureSamples ==
    {PressureData(JNum(650), mn, mx) :
        mn \in {JNull, JNum(0), JNum(600)}, mx \in {JNull, JNum(700)}}

WindSamples ==
    {WindData(speed, d) : speed \in {JNum(0), JDec(55, 10)}, d \in DirectionSamples}

SolSamples == {700, 3000}

MadeRecords ==
    {MarsWeatherData(sol, "2021-08-31", JStr("winter"), t, p, w) :
        sol \in SolSamples, t \in TemperatureSamples, p \in PressureSamples,
        w \in WindSamples}

Units == {"Celsius", "Fahrenheit", "fahrenheit", "FAHRENHEIT", "Kelvin"}

-----------------------------------------------------------------------------
(* The state machine of a record: `made` is the record as constructed,     *)
(* `self` the object the methods are called on, `ret` what the last call   *)
(* handed back.                                                            *)

NoTransport == [kind |-> "none"]

(* The weather client is not in use. *)
FetchIdle ==
    /\ pc = "idle"
    /\ transport = NoTransport
    /\ result = NoResult
    /\ gets = 0

InitRecords ==
    /\ FetchIdle
    /\ made \in MadeRecords
    /\ self = made
    /\ ret = NoResult
    /\ step = "ready"
    /\ StoreIdle
    /\ AppIdle

(* A call of a method of self.temperature, r its effect. *)
OnTemperature(op, r) ==
    /\ step = "ready"
    /\ self' = [self EXCEPT !.temperature = r.self]
    /\ ret' = [op |-> op, out |-> r.ret, fresh |-> r.fresh]
    /\ step' = "done"
    /\ UNCHANGED <<made, fetchVars, storeVars, appVars>>

(* A call that reads self and hands back out. *)
Reading(op, out) ==
    /\ step = "ready"
    /\ ret' = [op |-> op, out |-> out]
    /\ step' = "done"
    /\ UNCHANGED <<made, self, fetchVars, storeVars, appVars>>

CallToFahrenheit == OnTemperature("to_fahrenheit", ToFahrenheit(self.temperature))

CallFormatTemp ==
    \E unit \in Units : OnTemperature("format_temp", FormatTemp(self.temperature, unit))

CallGetWindDirectionDegrees ==
    Reading("get_wind_direction_degrees", GetWindDirectionDegrees(self.wind))

CallGetDirectionDegrees ==
    Reading("get_direction_degrees", GetDirectionDegrees(self.wind.wind_direction))

(* weather_ui.py line 305 *)
CallDrawWindCompass ==
    Reading("draw_wind_compass",
            DrawWindCompass(self.wind.wind_direction, self.wind.wind_speed))

CallToDict ==
    /\ step = "ready"
    /\ ret' = [op |-> "to_dict", out |-> Ok(ToDict(self))]
    /\ step' = "dict"
    /\ UNCHANGED <<made, self, fetchVars, storeVars, appVars>>

(* from_dict on the dictionary to_dict handed back *)
CallFromDict ==
    /\ step = "dict"
    /\ ret' = [op |-> "from_dict", out |-> FromDict(ret.out.v)]
    /\ step' = "done"
    /\ UNCHANGED <<made, self, fetchVars, storeVars, appVars>>

(* The caller drops what it was handed. *)
Release ==
    /\ step = "done"
    /\ ret' = NoResult
    /\ step' = "ready"
    /\ UNCHANGED <<made, self, fetchVars, storeVars, appVars>>

NextRecords ==
    \/ CallToFahrenheit
    \/ CallFormatTemp
    \/ CallGetWindDirectionDegrees
    \/ CallGetDirectionDegrees
    \/ CallDrawWindCompass
    \/ CallToDict
    \/ CallFromDict
    \/ Release

SpecRecords == InitRecords /\ [][NextRecords]_vars

-----------------------------------------------------------------------------
(* Vocabulary of the properties of the records. *)

Handed(op) == step = "done" /\ ret.op = op

(* The number x is n/d. *)
IsFraction(x, n, d) == x.t = "num" /\ x.v * d = n * x.scale

(* C12: from_dict(r.to_dict()) is a record equal to r field for field; a   *)
(* pressure min or max and a wind direction that r does not have (None)    *)
(* are None in the result too, not zero and not a default label.           *)
C12_DictRoundTrip ==
    Handed("from_dict") =>
        /\ ret.out.ok
        /\ ret.out.v = self
        /\ \A f \in {"sol", "terrestrial_date", "season"} : ret.out.v[f] = made[f]
        /\ \A f \in {"min_temp", "max_temp", "avg_temp"} :
              ret.out.v.temperature[f] = made.temperature[f]
        /\ \A f \in {"pressure", "min_pressure", "max_pressure"} :
              ret.out.v.pressure[f] = made.pressure[f]
        /\ \A f \in {"wind_speed", "wind_direction"} :
              ret.out.v.wind[f] = made.wind[f]

(* The round trip of a record without pressure range and wind direction. *)
C12_Witness ==
    /\ Handed("from_dict")
    /\ made.pressure = PressureData(JNum(650), JNull, JNull)
    /\ made.wind.wind_direction = JNull
    /\ ret.out.ok
    /\ ret.out.v.pressure.min_pressure = JNull
    /\ ret.out.v.pressure.max_pressure = JNull
    /\ ret.out.v.wind.wind_direction = JNull

(* C13: to_fahrenheit hands back a new record whose min, max and avg are   *)
(* c * 9/5 + 32 of the fields of the record it is called on (-80, -20, -50 *)
(* give -112, -4, -58) and leaves that record as it was; format_temp       *)
(* leaves it as it was too.                                                *)
C13_FahrenheitLeavesSource ==
    /\ Handed("to_fahrenheit") =>
          /\ self = made
          /\ ret.out.ok /\ ret.fresh
          /\ \A f \in {"min_temp", "max_temp", "avg_temp"} :
                IsFraction(ret.out.v[f],
                           9 * made.temperature[f].v + 160 * made.temperature[f].scale,
                           5 * made.temperature[f].scale)
          /\ made.temperature = TemperatureData(JNum(-80), JNum(-20), JNum(-50))
                => ret.out.v = TemperatureData(JNum(-112), JNum(-4), JNum(-58))
    /\ Handed("format_temp") => self = made

C13_Witness ==
    /\ Handed("to_fahrenheit")
    /\ made.temperature = TemperatureData(JNum(-80), JNum(-20), JNum(-50))
    /\ ret.out.v = TemperatureData(JNum(-112), JNum(-4), JNum(-58))
    /\ self.temperature = TemperatureData(JNum(-80), JNum(-20), JNum(-50))

(* The label is the k-th point of the 16-point compass, k from 0. *)
IsPoint(d, k) == d = JStr(Compass16[k + 1])

(* What the claim asks of a compass-to-degrees operation. *)
DegreesOfCompass(op) ==
    Handed(op) =>
        /\ ret.out.ok
        /\ \A k \in 0..15 :
              IsPoint(made.wind.wind_direction, k) => IsFraction(ret.out.v, 45 * k, 2)
        /\ (\A k \in 0..15 : ~IsPoint(made.wind.wind_direction, k))
              => ret.out.v = JNull

(* C14: compass-to-degrees gives 22.5 * k for the k-th point of the        *)
(* 16-point compass (225 for SW) and no value for an absent direction or a *)
(* label outside the sixteen, never 0 as a default; both for              *)
(* WindData.get_wind_direction_degrees and for                            *)
(* MarsWeatherUI.get_direction_degrees.                                    *)
C14_CompassDegrees ==
    /\ DegreesOfCompass("get_wind_direction_degrees")
    /\ DegreesOfCompass("get_direction_degrees")

-----------------------------------------------------------------------------
(* json.dump and json.load.  The text of a file is the sequence of its     *)
(* JSON tokens: the punctuation marks and the literals (a literal carries  *)
(* the value it denotes).                                                  *)

(* A value json cannot serialise, a TemperatureData object for instance. *)
NotJson == [t |-> "object"]

Tok(k) == [k |-> k]

Lit(v) == [k |-> "lit", v |-> v]

(* The keys of a dictionary, one after the other. *)
RECURSIVE KeySeq(_)
KeySeq(S) ==
    IF S = {} THEN <<>>
    ELSE <<CHOOSE x \in S : TRUE>> \o KeySeq(S \ {CHOOSE x \in S : TRUE})

(* The encoder: [ok |-> the value was serialisable, toks |-> the tokens    *)
(* written, up to the value that was not].                                 *)
RECURSIVE Encode(_)
RECURSIVE EncodeMembers(_, _, _)
Encode(v) ==
    IF v.t \in {"null", "num", "str", "bool"} THEN [ok |-> TRUE, toks |-> <<Lit(v)>>]
    ELSE IF v.t = "obj" THEN EncodeMembers(v.m, KeySeq(DOMAIN v.m), <<Tok("{")>>)
    ELSE [ok |-> FALSE, toks |-> <<>>]

EncodeMembers(m, keys, acc) ==
    IF keys = <<>> THEN [ok |-> TRUE, toks |-> acc \o <<Tok("}")>>]
    ELSE LET key == <<Lit(JStr(Head(keys))), Tok(":")>>
             sep == IF Len(acc) = 1 THEN <<>> ELSE <<Tok(",")>>
         IN  IF ~Encode(m[Head(keys)]).ok
             THEN [ok |-> FALSE,
                   toks |-> acc \o sep \o key \o Encode(m[Head(keys)]).toks]
             ELSE EncodeMembers(m, Tail(keys),
                                acc \o sep \o key \o Encode(m[Head(keys)]).toks)

BadJson == [ok |-> FALSE]

(* The decoder, from token i on: [ok, v |-> the value, next |-> the token  *)
(* after it].  A key given twice keeps its last value.                     *)
RECURSIVE Decode(_, _)
RECURSIVE DecodeMembers(_, _, _)
Decode(toks, i) ==
    IF i > Len(toks) THEN BadJson
    ELSE IF toks[i].k = "lit" THEN [ok |-> TRUE, v |-> toks[i].v, next |-> i + 1]
    ELSE IF toks[i].k # "{" THEN BadJson
    ELSE IF i + 1 <= Len(toks) /\ toks[i + 1].k = "}"
         THEN [ok |-> TRUE, v |-> JObj(EmptyMap), next |-> i + 2]
    ELSE DecodeMembers(toks, i + 1, EmptyMap)

DecodeMembers(toks, i, acc) ==
    IF i + 2 > Len(toks) THEN BadJson
    ELSE IF toks[i].k # "lit" \/ toks[i + 1].k # ":" THEN BadJson
    ELSE IF toks[i].v.t # "str" THEN BadJson
    ELSE IF ~Decode(toks, i + 2).ok \/ Decode(toks, i + 2).next > Len(toks) THEN BadJson
    ELSE IF toks[Decode(toks, i + 2).next].k = "}"
         THEN [ok |-> TRUE,
               v |-> JObj((toks[i].v.s :> Decode(toks, i + 2).v) @@ acc),
               next |-> Decode(toks, i + 2).next + 1]
    ELSE IF toks[Decode(toks, i + 2).next].k = ","
         THEN DecodeMembers(toks, Decode(toks, i + 2).next + 1,
                            (toks[i].v.s :> Decode(toks, i + 2).v) @@ acc)
    ELSE BadJson

(* json.load(f) *)
JsonLoad(toks) ==
    IF Decode(toks, 1).ok /\ Decode(toks, 1).next = Len(toks) + 1
    THEN Ok(Decode(toks, 1).v)
    ELSE Raise("JSONDecodeError", "Expecting value")

(* The model keeps sol as an integer and terrestrial_date as a string;     *)
(* in a file they are a number and a string literal.                       *)
AsJson(d) ==
    JObj([k \in DOMAIN d.m |->
            IF k = "sol" THEN JNum(d.m[k])
            ELSE IF k = "terrestrial_date" THEN JStr(d.m[k])
            ELSE d.m[k]])

Plain(x) ==
    IF x.t = "num" /\ x.scale = 1 THEN x.v
    ELSE IF x.t = "str" /\ "s" \in DOMAIN x THEN x.s
    ELSE x

FromJson(v) ==
    IF v.t # "obj" THEN v
    ELSE JObj([k \in DOMAIN v.m |->
                 IF k \in {"sol", "terrestrial_date"} THEN Plain(v.m[k]) ELSE v.m[k]])

-----------------------------------------------------------------------------
(* The persistence functions of utils.py.  The disk is [config_dir |-> the *)
(* directory ~/.mars_weather exists, cache_dir |-> its subdirectory cache  *)
(* exists, files |-> the text of each file that exists].  What the         *)
(* operating system does to a call is its fault: "none", "makedirs"        *)
(* (os.makedirs fails: the home directory cannot be written) or "open"     *)
(* (open() fails: permission denied, I/O error).  A function is given as   *)
(* [disk |-> the disk after the call, ret |-> Ok(value) or the exception   *)
(* that leaves the function].                                              *)

Faults == {"none", "makedirs", "open"}

ConfigFile == "config.json"

(* As CacheFile, with one file name for every sol. *)
CacheFileShared(sol) == "cache/weather_sol.json"

(* f"weather_sol_{sol}.json" in the cache directory *)
CacheFile(sol) == "cache/weather_sol_" \o ToString(sol) \o ".json"

Exists(d, path) == path \in DOMAIN d.files

(* open(path, 'w') followed by the writing of text *)
Written(d, path, text) == [d EXCEPT !.files = (path :> text) @@ @]

(* get_config_path *)
GetConfigPath(d, fault) ==
    IF d.config_dir THEN [disk |-> d, ret |-> Ok(ConfigFile)]
    ELSE IF fault = "makedirs" THEN [disk |-> d, ret |-> Raise("OSError", "makedirs")]
    ELSE [disk |-> [d EXCEPT !.config_dir = TRUE], ret |-> Ok(ConfigFile)]

(* get_cache_path: os.makedirs makes the missing parents too. *)
GetCachePath(d, fault) ==
    IF d.cache_dir THEN [disk |-> d, ret |-> Ok("cache")]
    ELSE IF fault = "makedirs" THEN [disk |-> d, ret |-> Raise("OSError", "makedirs")]
    ELSE [disk |-> [d EXCEPT !.config_dir = TRUE, !.cache_dir = TRUE],
          ret |-> Ok("cache")]

(* default_config, lines 136-142 *)
DefaultConfig ==
    JObj([api_key |-> JStr("DEMO_KEY"), temperature_unit |-> JStr("Celsius"),
          auto_refresh |-> JBool(TRUE), refresh_interval |-> JNum(300),
          notifications_enabled |-> JBool(TRUE)])

(* {**default_config, **config} *)
MergeOver(default, config) ==
    IF config.t # "obj" THEN Raise("TypeError", "not a mapping")
    ELSE Ok(JObj(config.m @@ default.m))

(* Lines 144-153 of load_config: the try block, its handler and the final  *)
(* return.                                                                 *)
LoadConfigTry(d, fault) ==
    IF ~Exists(d, ConfigFile) THEN DefaultConfig
    ELSE IF fault = "open" THEN DefaultConfig
    ELSE IF ~JsonLoad(d.files[ConfigFile]).ok THEN DefaultConfig
    ELSE IF ~MergeOver(DefaultConfig, JsonLoad(d.files[ConfigFile]).v).ok
         THEN DefaultConfig
    ELSE MergeOver(DefaultConfig, JsonLoad(d.files[ConfigFile]).v).v

(* load_config: get_config_path() is called at line 134, before the try. *)
LoadConfig(d, fault) ==
    IF ~GetConfigPath(d, fault).ret.ok THEN GetConfigPath(d, fault)
    ELSE [disk |-> GetConfigPath(d, fault).disk,
          ret |-> Ok(LoadConfigTry(GetConfigPath(d, fault).disk, fault))]

(* save_config *)
SaveConfig(config, d, fault) ==
    IF ~GetConfigPath(d, fault).ret.ok THEN [disk |-> d, ret |-> Ok(JBool(FALSE))]
    ELSE IF fault = "open"
         THEN [disk |-> GetConfigPath(d, fault).disk, ret |-> Ok(JBool(FALSE))]
    ELSE [disk |-> Written(GetConfigPath(d, fault).disk, ConfigFile,
                           Encode(config).toks),
          ret |-> Ok(JBool(Encode(config).ok))]

(* cache_weather_data *)
CacheWeatherData(data, d, fault) ==
    IF ~GetCachePath(d, fault).ret.ok THEN [disk |-> d, ret |-> Ok(JBool(FALSE))]
    ELSE IF fault = "open"
         THEN [disk |-> GetCachePath(d, fault).disk, ret |-> Ok(JBool(FALSE))]
    ELSE [disk |-> Written(GetCachePath(d, fault).disk, CacheFile(data.sol),
                           Encode(AsJson(ToDict(data))).toks),
          ret |-> Ok(JBool(Encode(AsJson(ToDict(data))).ok))]

(* Lines 191-194: the file is there; it is opened, decoded and turned into *)
(* a record.  Whatever fails is caught and None is returned.               *)
ReadCached(d, path, fault) ==
    IF fault = "open" THEN JNull
    ELSE IF ~JsonLoad(d.files[path]).ok THEN JNull
    ELSE IF ~FromDict(FromJson(JsonLoad(d.files[path]).v)).ok THEN JNull
    ELSE FromDict(FromJson(JsonLoad(d.files[path]).v)).v

(* load_cached_weather_data *)
LoadCachedWeatherData(sol, d, fault) ==
    IF ~GetCachePath(d, fault).ret.ok THEN [disk |-> d, ret |-> Ok(JNull)]
    ELSE IF ~Exists(GetCachePath(d, fault).disk, CacheFile(sol))
         THEN [disk |-> GetCachePath(d, fault).disk, ret |-> Ok(JNull)]
    ELSE [disk |-> GetCachePath(d, fault).disk,
          ret |-> Ok(ReadCached(GetCachePath(d, fault).disk, CacheFile(sol), fault))]

-----------------------------------------------------------------------------
(* The disks and arguments the persistence functions are run on. *)

TextOf(v) == Encode(v).toks

(* What config.json may hold: nothing, half an object, a number, an empty  *)
(* object, one key, the five keys, a key that is not a setting.            *)
ConfigTexts ==
    {<<>>, <<Tok("{")>>, TextOf(JNum(5)), TextOf(JObj(EmptyMap)),
     TextOf(JObj([temperature_unit |-> JStr("Fahrenheit")])),
     TextOf(JObj([api_key |-> JStr("KEY123"), temperature_unit |-> JStr("Fahrenheit"),
                  auto_refresh |-> JBool(FALSE), refresh_interval |-> JNum(60),
                  notifications_enabled |-> JBool(FALSE)])),
     TextOf(JObj([refresh_interval |-> JNull, theme |-> JStr("dark")]))}

(* What a cache file left by an earlier run may hold. *)
StaleTexts == {<<Tok("{")>>, TextOf(JObj([sol |-> JNum(700)]))}

(* The configurations saved: the settings dialog's, and one holding a      *)
(* value json cannot write.                                                *)
ConfigSamples ==
    {JObj([api_key |-> JStr("KEY123"), temperature_unit |-> JStr("Fahrenheit"),
           auto_refresh |-> JBool(TRUE), refresh_interval |-> JNum(300),
           notifications_enabled |-> JBool(TRUE)]),
     JObj([api_key |-> JStr("KEY123"), temperature_unit |-> NotJson])}

CacheRecords ==
    {MarsWeatherData(700, "2021-08-31", JStr("winter"),
                     TemperatureData(JDec(-957, 10), JDec(-123, 10), JDec(-602, 10)),
                     PressureData(JDec(7450, 10), JDec(7201, 10), JDec(7688, 10)),
                     WindData(JDec(72, 10), JStr("SSW"))),
     MarsWeatherData(700, "2021-08-31", JStr("Unknown"),
                     TemperatureData(JNum(-80), JNum(-20), JNum(-50)),
                     PressureData(JNum(650), JNull, JNull),
                     WindData(JNum(0), JNull)),
     MarsWeatherData(3000, "2024-02-29", JStr("Spring"),
                     TemperatureData(JNum(-105), JNum(-60), JNum(-90)),
                     PressureData(JNum(600), JNum(650), JNum(750)),
                     WindData(JDec(20, 10), JStr("N")))}

CacheSols == {r.sol : r \in CacheRecords}

(* A sol nothing is ever cached for. *)
OtherSol == 9999

NoFiles == [path \in {} |-> <<>>]

Disks ==
    {[config_dir |-> FALSE, cache_dir |-> FALSE, files |-> NoFiles]}
    \cup {[config_dir |-> TRUE, cache_dir |-> c, files |-> NoFiles] : c \in BOOLEAN}
    \cup {[config_dir |-> TRUE, cache_dir |-> c, files |-> ConfigFile :> text] :
            c \in BOOLEAN, text \in ConfigTexts}
    \cup {[config_dir |-> TRUE, cache_dir |-> TRUE, files |-> CacheFile(700) :> text] :
            text \in StaleTexts}

-----------------------------------------------------------------------------
(* The state machine of the persistence functions.  `stored` remembers,    *)
(* for each sol, the record of the last cache_weather_data call that       *)
(* returned True, and whether the cache has only ever been written by such *)
(* calls (clean).                                                          *)

NeverStored == [kind |-> "never"]

InitStore ==
    /\ FetchIdle
    /\ RecordsIdle
    /\ disk \in Disks
    /\ stored = [last |-> [s \in CacheSols |-> NeverStored],
                 clean |-> \A s \in CacheSols : ~Exists(disk, CacheFile(s))]
    /\ AppIdle


(* A call of a persistence function, r its effect. *)
OnDisk(op, arg, fault, r) ==
    /\ step = "idle"
    /\ disk # NoDisk
    /\ disk' = r.disk
    /\ ret' = [op |-> op, arg |-> arg, fault |-> fault, out |-> r.ret]
    /\ step' = "called"
    /\ UNCHANGED <<made, self, fetchVars, appVars>>

CallLoadConfig ==
    \E fault \in Faults :
        /\ OnDisk("load_config", JNull, fault, LoadConfig(disk, fault))
        /\ UNCHANGED stored

CallSaveConfig ==
    \E fault \in Faults, config \in ConfigSamples :
        /\ OnDisk("save_config", config, fault, SaveConfig(config, disk, fault))
        /\ UNCHANGED stored

CallCacheWeatherData ==
    \E fault \in Faults, data \in CacheRecords :
        /\ OnDisk("cache_weather_data", data, fault, CacheWeatherData(data, disk, fault))
        /\ stored' = IF CacheWeatherData(data, disk, fault).ret = Ok(JBool(TRUE))
                     THEN [stored EXCEPT !.last[data.sol] = data]
                     ELSE [stored EXCEPT !.clean = FALSE]

CallLoadCachedWeatherData ==
    \E fault \in Faults, sol \in CacheSols \cup {OtherSol} :
        /\ OnDisk("load_cached_weather_data", sol, fault,
                  LoadCachedWeatherData(sol, disk, fault))
        /\ UNCHANGED stored

(* The caller takes what the function handed back. *)
Resume ==
    /\ step = "called"
    /\ ret' = NoResult
    /\ step' = "idle"
    /\ UNCHANGED <<made, self, fetchVars, storeVars, appVars>>

NextStore ==
    \/ CallLoadConfig
    \/ CallSaveConfig
    \/ CallCacheWeatherData
    \/ CallLoadCachedWeatherData
    \/ Resume

SpecStore == InitStore /\ [][NextStore]_vars

-----------------------------------------------------------------------------
(* Vocabulary of the properties of the persistence functions. *)

Called(op) == step = "called" /\ ret.op = op

(* What config.json holds: load_config does not write files. *)
ConfigMissing == ~Exists(disk, ConfigFile)

ConfigDecoded == JsonLoad(disk.files[ConfigFile])

SettingKeys ==
    {"api_key", "temperature_unit", "auto_refresh", "refresh_interval",
     "notifications_enabled"}

FiveDefaults ==
    JObj([k \in SettingKeys |->
            CASE k = "api_key" -> JStr("DEMO_KEY")
              [] k = "temperature_unit" -> JStr("Celsius")
              [] k = "auto_refresh" -> JBool(TRUE)
              [] k = "refresh_interval" -> JNum(300)
              [] k = "notifications_enabled" -> JBool(TRUE)])

(* The result is the defaults with the keys of the file written over them. *)
IsOverlay(out, file) ==
    /\ out.t = "obj"
    /\ DOMAIN out.m = SettingKeys \cup DOMAIN file.m
    /\ \A k \in DOMAIN file.m : out.m[k] = file.m[k]
    /\ \A k \in SettingKeys \ DOMAIN file.m : out.m[k] = FiveDefaults.m[k]

(* What the claim asks of load_config, for the calls that satisfy pre. *)
DefaultsOrOverlay(pre) ==
    Called("load_config") /\ pre =>
        /\ ConfigMissing => ret.out = Ok(FiveDefaults)
        /\ ~ConfigMissing /\ ~ConfigDecoded.ok => ret.out = Ok(FiveDefaults)
        /\ ( /\ ~ConfigMissing
             /\ ConfigDecoded.ok
             /\ ConfigDecoded.v.t = "obj"
             /\ DOMAIN ConfigDecoded.v.m \subseteq SettingKeys
             /\ ret.fault # "open" )
           => ret.out.ok /\ IsOverlay(ret.out.v, ConfigDecoded.v)

(* C15: load_config returns exactly the five defaults when config.json is  *)
(* missing or cannot be parsed; when it holds a JSON object with a subset  *)
(* of the keys (and can be read) the result is the defaults with the       *)
(* file's keys written over them.                                          *)
C15_ConfigDefaultsOverlay == DefaultsOrOverlay(TRUE)

(* C16: load_config, save_config, cache_weather_data and                   *)
(* load_cached_weather_data never raise: a failure of open(), of the       *)
(* creation of the directory or of the decoding of a file ends in the      *)
(* return value, the defaults, False, False and None respectively.         *)
C16_PersistenceNeverRaises ==
    step = "called" =>
        /\ ret.out.ok
        /\ Called("load_config") /\ (ret.fault = "open" \/ ~disk.config_dir)
              => ret.out.v = FiveDefaults
        /\ Called("save_config") /\ (ret.fault = "open" \/ ~disk.config_dir)
              => ret.out.v = JBool(FALSE)
        /\ Called("cache_weather_data") /\ (ret.fault = "open" \/ ~disk.cache_dir)
              => ret.out.v = JBool(FALSE)
        /\ Called("load_cached_weather_data") /\ (ret.fault = "open" \/ ~disk.cache_dir)
              => ret.out.v = JNull

(* The last record stored for the sol asked for, None when there is none. *)
LastStored(sol) ==
    IF sol \in CacheSols /\ stored.last[sol] # NeverStored THEN stored.last[sol]
    ELSE JNull

(* C17: when the cache has only been written by cache_weather_data calls   *)
(* that returned True, load_cached_weather_data(s), if the file system     *)
(* lets it read, returns a record equal to the last one stored with sol s, *)
(* and None for a sol never stored; what was stored for another sol makes  *)
(* no difference.                                                          *)
C17_CacheReturnsLastStored ==
    Called("load_cached_weather_data") /\ stored.clean /\ ret.fault = "none"
        => ret.out = Ok(LastStored(ret.arg))

(* Sol 700 read back after a second record for 700 and one for 3000 were   *)
(* stored; and a sol never stored read as None.                            *)
C17_Witness ==
    /\ Called("load_cached_weather_data")
    /\ stored.clean /\ ret.fault = "none"
    /\ ret.arg = 700
    /\ stored.last[3000] # NeverStored
    /\ ret.out.v = stored.last[700]
    /\ ret.out.v.pressure = PressureData(JNum(650), JNull, JNull)
    /\ ret.out.v.wind.wind_direction = JNull

-----------------------------------------------------------------------------
Validated == pc = "done" /\ result.kind = "validated"

(* C18: validate_api_key returns True exactly when its GET is answered     *)
(* with status 200, and False for every other status and for whatever the  *)
(* request raises; it never raises and what it returns is a boolean, never *)
(* a weather record.                                                       *)
C18_ValidateOnlyOn200 ==
    Validated =>
        /\ result.out.ok
        /\ result.out.v \in {JBool(TRUE), JBool(FALSE)}
        /\ result.out.v = JBool(TRUE) <=> Status(200)

(* A request that times out answered with False. *)
C18_Witness ==
    /\ Validated
    /\ transport.kind = "raise" /\ transport.exc = "ReadTimeout"
    /\ result.out = Ok(JBool(FALSE))

(* The attempt failed: no response, a status other than 200, or a body     *)
(* from which no record could be built.                                    *)
FailedAttempt ==
    \/ transport.kind = "raise"
    \/ transport.status # 200
    \/ ~ResponseJson(transport.body).ok
    \/ ExtractWeather(transport.body).kind # "record"

(* C19: a call of get_mars_weather issues one GET request, whatever comes  *)
(* of it; after a failed attempt no second request is sent, and the call   *)
(* ends with a synthetic record or with an error raised to the caller.     *)
C19_OneRequestPerCall ==
    /\ gets \in {0, 1}
    /\ Done => gets = 1
    /\ Done /\ FailedAttempt
          => \/ Returned /\ result.source = "demo"
             \/ result.kind = "raised"

(* A call answered with status 500 that ended with a synthetic record      *)
(* after its one request.                                                  *)
C19_Witness ==
    /\ Done /\ Status(500)
    /\ gets = 1
    /\ Returned /\ result.source = "demo"

-----------------------------------------------------------------------------
(* The window of weather_ui.py, as the texts and states of its widgets.    *)

Pad3(n) == IF n < 10 THEN "00" \o ToString(n)
           ELSE IF n < 100 THEN "0" \o ToString(n) ELSE ToString(n)

RECURSIVE Grouped(_)
(* The digits of n >= 0 in groups of three *)
Grouped(n) == IF n < 1000 THEN ToString(n)
              ELSE Grouped(n \div 1000) \o "," \o Pad3(n % 1000)

(* f"{sol:,}" *)
Commas(n) == IF n < 0 THEN "-" \o Grouped(-n) ELSE Grouped(n)

(* round(x) to the nearest integer, ties to even, of the magnitude of x *)
Units0(x) ==
    LET q == Abs(x.v) \div x.scale
        r == Abs(x.v) % x.scale
    IN  IF 2 * r > x.scale \/ (2 * r = x.scale /\ q % 2 = 1) THEN q + 1 ELSE q

(* f"{x:.0f} Pa" *)
Fixed0(x, unit_symbol) ==
    IF x.t # "num" THEN Raise("TypeError", "unsupported format string")
    ELSE Ok((IF x.v < 0 THEN "-" ELSE "") \o ToString(Units0(x)) \o unit_symbol)

(* The field of PressureData a key of format_pressure's result is made of *)
PressureField(p, k) ==
    IF k = "avg" THEN p.pressure ELSE IF k = "min" THEN p.min_pressure ELSE p.max_pressure

(* PressureData.format_pressure: 'avg' always, 'min' and 'max' when the    *)
(* value is not None.                                                      *)
FormatPressure(p) ==
    LET keys == {"avg"} \cup {k \in {"min", "max"} : PressureField(p, k) # JNull}
    IN  IF \E k \in keys : ~Fixed0(PressureField(p, k), " Pa").ok
        THEN Raise("TypeError", "unsupported format string")
        ELSE Ok([k \in keys |-> Fixed0(PressureField(p, k), " Pa").v])

(* WindData.format_wind *)
FormatWind(w) ==
    LET speed == Fixed1(w.wind_speed, " m/s")
    IN  IF ~speed.ok THEN speed
        ELSE Ok([speed |-> speed.v,
                 direction |-> IF Truthy(w.wind_direction) THEN w.wind_direction
                               ELSE JStr("Unknown")])

(* The dictionary of get_season_emoji, each emoji by its name. *)
SeasonEmojis ==
    [Spring |-> "seedling", Summer |-> "sun", Autumn |-> "fallen leaf",
     Winter |-> "snowflake", Unknown |-> "globe"]

(* get_season_emoji *)
GetSeasonEmoji(season) == MapGet(SeasonEmojis, season, "globe")

(* The widgets update_weather_display writes, as create_widgets leaves     *)
(* them.                                                                   *)
BlankDisplay ==
    [sol_label |-> "Sol: --", date_label |-> "Date: --",
     season_label |-> <<"Season: --">>,
     temp_display |-> "--°C", temp_range |-> "-- to --",
     pressure_display |-> "-- Pa", pressure_range |-> "Range: -- to --",
     wind_speed_display |-> "-- m/s", wind_dir_display |-> <<"Direction: --">>,
     wind_canvas |-> [arrow |-> FALSE]]

(* update_weather_display statement by statement.  A stage is the display  *)
(* after the statements up to the lines named and the exception that       *)
(* ended the method there, if any: prev is the stage before, formatted     *)
(* what the stage's own calls returned, display the widgets once its       *)
(* statements have run.                                                    *)
Stage(prev, formatted, display) ==
    IF ~prev.ret.ok THEN prev
    ELSE IF ~formatted.ok THEN [display |-> prev.display, ret |-> formatted]
    ELSE [display |-> display, ret |-> Ok(JNull)]

(* Lines 279-280 *)
DisplaySol(display, weather_data) ==
    [display |-> [display EXCEPT
                    !.sol_label = "Sol " \o Commas(weather_data.sol),
                    !.date_label = "Earth Date: " \o weather_data.terrestrial_date],
     ret |-> Ok(JNull)]

(* Lines 282-283 *)
DisplaySeason(prev, weather_data) ==
    Stage(prev, GetSeasonEmoji(weather_data.season),
          [prev.display EXCEPT
              !.season_label = <<"Season: ", GetSeasonEmoji(weather_data.season).v,
                                 weather_data.season>>])

(* Lines 287-288, temp_formatted the dictionary of line 286 *)
TemperatureWidgets(display, temp_formatted) ==
    [display EXCEPT
        !.temp_display = temp_formatted.m.avg.s,
        !.temp_range = temp_formatted.m.min.s \o " to " \o temp_formatted.m.max.s]

(* Lines 286-288 *)
DisplayTemperature(prev, weather_data, temp_unit) ==
    Stage(prev, FormatTemp(weather_data.temperature, temp_unit).ret,
          TemperatureWidgets(prev.display,
                             FormatTemp(weather_data.temperature, temp_unit).ret.v))

(* Lines 294-297: the text of pressure_range *)
PressureRange(pressure_formatted) ==
    IF "min" \in DOMAIN pressure_formatted /\ "max" \in DOMAIN pressure_formatted
    THEN "Range: " \o pressure_formatted.min \o " to " \o pressure_formatted.max
    ELSE "Range: Not available"

(* Lines 291-297 *)
DisplayPressure(prev, weather_data) ==
    Stage(prev, FormatPressure(weather_data.pressure),
          [prev.display EXCEPT
              !.pressure_display = FormatPressure(weather_data.pressure).v.avg,
              !.pressure_range = PressureRange(FormatPressure(weather_data.pressure).v)])

(* Lines 300-302 *)
DisplayWind(prev, weather_data) ==
    Stage(prev, FormatWind(weather_data.wind),
          [prev.display EXCEPT
              !.wind_speed_display = FormatWind(weather_data.wind).v.speed,
              !.wind_dir_display =
                  <<"Direction: ", FormatWind(weather_data.wind).v.direction>>])

(* Line 305 *)
DisplayCompass(prev, weather_data) ==
    Stage(prev, DrawWindCompass(weather_data.wind.wind_direction,
                                weather_data.wind.wind_speed),
          [prev.display EXCEPT
              !.wind_canvas = DrawWindCompass(weather_data.wind.wind_direction,
                                              weather_data.wind.wind_speed).v])

(* update_weather_display *)
UpdateWeatherDisplay(display, weather_data, temp_unit) ==
    DisplayCompass(
        DisplayWind(
            DisplayPressure(
                DisplayTemperature(
                    DisplaySeason(DisplaySol(display, weather_data), weather_data),
                    weather_data, temp_unit),
                weather_data),
            weather_data),
        weather_data)

NoDialog == "none"

(* The window: the loading overlay (placed or not), the refresh button,    *)
(* the status bar, the weather widgets and the message box that is open.   *)
Window(loading, refresh_btn, status_bar, display, dialog) ==
    [loading |-> loading, refresh_btn |-> refresh_btn, status_bar |-> status_bar,
     display |-> display, dialog |-> dialog]

(* MarsWeatherUI.show_loading *)
ShowLoading(w, show) ==
    IF show THEN [w EXCEPT !.loading = TRUE, !.refresh_btn = "disabled"]
    ELSE [w EXCEPT !.loading = FALSE, !.refresh_btn = "normal"]

(* MarsWeatherUI.update_status *)
UpdateStatus(w, message) == [w EXCEPT !.status_bar = message]

-----------------------------------------------------------------------------
(* MarsWeatherApp (main.py): the main thread, which runs the Tk event loop *)
(* and every callback, and the threads refresh_weather_data starts, one    *)
(* per refresh, each running _fetch_weather_data once.                     *)

App(w, weather) == [ui |-> w, current_weather |-> weather]

(* The parts of the application state a method wrote *)
AllParts == {"current_weather", "loading", "status_bar", "display"}

(* The effect of a method: the application after it, the parts it wrote,  *)
(* the threads it started and what it returned or raised.                  *)
Effect(app, wrote, started, r) ==
    [app |-> app, wrote |-> wrote, started |-> started, ret |-> r]

MsgFetching == "Fetching Mars weather data..."

(* refresh_weather_data (lines 56-64) *)
RefreshWeatherData(app) ==
    Effect([app EXCEPT !.ui = UpdateStatus(ShowLoading(app.ui, TRUE), MsgFetching)],
           {"loading", "status_bar"}, 1, Ok(JNull))

(* datetime.now().strftime('%H:%M:%S') *)
FormatTime(hms) == Pad2(hms[1]) \o ":" \o Pad2(hms[2]) \o ":" \o Pad2(hms[3])

(* Lines 83-86 of _update_ui_with_weather, shown what                      *)
(* update_weather_display did: its exception ends the method before line   *)
(* 85.                                                                     *)
UpdateUIShown(app, weather_data, now, shown) ==
    IF ~shown.ret.ok
    THEN Effect(App([app.ui EXCEPT !.display = shown.display], weather_data),
                {"current_weather", "display"}, 0, shown.ret)
    ELSE Effect(App(UpdateStatus(ShowLoading([app.ui EXCEPT !.display = shown.display],
                                             FALSE),
                                 "Last updated: " \o FormatTime(now)),
                    weather_data),
                AllParts, 0, Ok(JNull))

(* _update_ui_with_weather (lines 81-86) *)
UpdateUIWithWeather(app, weather_data, now) ==
    UpdateUIShown(app, weather_data, now,
                  UpdateWeatherDisplay(app.ui.display, weather_data, "Celsius"))

(* _show_error (lines 88-92); messagebox.showerror leaves its box open. *)
ShowError(app, error_message) ==
    Effect([app EXCEPT !.ui = [UpdateStatus(ShowLoading(app.ui, FALSE),
                                            "Error: " \o error_message)
                               EXCEPT !.dialog = error_message]],
           {"loading", "status_bar"}, 0, Ok(JNull))

(* A callable with its argument, as root.after is handed them *)
Callback(fn, arg) == [fn |-> fn, arg |-> arg]

(* The call of a callback *)
Invoke(app, cb, now) ==
    IF cb.fn = "_update_ui_with_weather" THEN UpdateUIWithWeather(app, cb.arg, now)
    ELSE ShowError(app, cb.arg)

(* A statement of _fetch_weather_data that passes a result on: by          *)
(* root.after(0, cb), or by a call of cb in the thread itself.             *)
Statement(via, cb) == [via |-> via, cb |-> cb]

(* What the thread has in hand after line 69, o being how                 *)
(* get_mars_weather ended: the record it returned, one of the demo         *)
(* records, or the exception it raised.                                    *)
InHand(o, demo) ==
    IF o.kind = "record" THEN {[kind |-> "returned", rec |-> o.rec]}
    ELSE IF o.kind = "demo" THEN {[kind |-> "returned", rec |-> d] : d \in demo}
    ELSE {[kind |-> "raised", exc |-> o.exc, msg |-> o.msg]}

(* Line 69: self.api_client.get_mars_weather() *)
Fetched(t, demo) == InHand(GetMarsWeather(t), demo)

MsgNoData == "No weather data available"

MsgFailed(msg) == "Failed to fetch weather data: " \o msg

(* As PassOn, with the callbacks called in the thread of the fetch. *)
PassOnDirectly(got) ==
    IF got.kind = "raised" THEN Statement("call", Callback("_show_error", MsgFailed(got.msg)))
    ELSE IF got.rec # JNull
    THEN Statement("call", Callback("_update_ui_with_weather", got.rec))
    ELSE Statement("call", Callback("_show_error", MsgNoData))

(* Lines 71-79 of _fetch_weather_data: the statement that passes on what   *)
(* line 69 got, line 73 or 75 for a value and line 79 for an exception of  *)
(* class Exception.                                                        *)
PassOn(got) ==
    IF got.kind = "raised" THEN Statement("after", Callback("_show_error", MsgFailed(got.msg)))
    ELSE IF got.rec # JNull
    THEN Statement("after", Callback("_update_ui_with_weather", got.rec))
    ELSE Statement("after", Callback("_show_error", MsgNoData))

MsgNotInMainLoop == "main thread is not in main loop"

(* root.after(0, ...) called from another thread than the one of the event *)
(* loop: the timer is registered while the loop runs; without a running    *)
(* loop the call raises RuntimeError.                                      *)
After(loop, queue, cb) ==
    IF loop = "running" THEN [queue |-> Append(queue, cb), ret |-> Ok(JNull)]
    ELSE [queue |-> queue, ret |-> Raise("RuntimeError", MsgNotInMainLoop)]

-----------------------------------------------------------------------------
(* The application as a state machine, from the end of                    *)
(* MarsWeatherApp.__init__ on.                                             *)

(* The refreshes of one run: the one of __init__ and those clicked. *)
MaxFetches == 2

(* What session.get does for a fetch of the application. *)
AppTransports ==
    {[kind |-> "response", status |-> 200, body |-> Body(<<Key610>>, EntryA, Absent)],
     [kind |-> "response", status |-> 200,
      body |-> Body(<<Key610>>,
                    Entry(MkObj([mn |-> JNull, mx |-> JDec(-123, 10), av |-> JDec(-602, 10)]),
                          MkObj([av |-> JDec(7450, 10)]),
                          MkObj([av |-> JDec(72, 10)]), WindDir("SSW"), JStr("winter"),
                          JTime(2020, 7, 29)),
                    Absent)],
     [kind |-> "response", status |-> 403, body |-> NoBody],
     [kind |-> "response", status |-> 500, body |-> NoBody],
     [kind |-> "raise", exc |-> "ReadTimeout"],
     [kind |-> "raise", exc |-> "ConnectionError"]}

(* The demo records of the application's fetches: those of sol 3000 in    *)
(* Winter with wind from SW, pressure and wind speed at their lower ends.  *)
AppDemoRecords ==
    {d \in DemoRecords({0}, {"Winter"}, {"SW"}) :
        /\ d.pressure = PressureData(JNum(600), JNum(580), JNum(750))
        /\ d.wind.wind_speed = JDec(20, 10)}

(* The times of day datetime.now() gives *)
Clock == {<<9, 5, 0>>, <<23, 59, 59>>}

MainThread == "MainThread"

(* The name of the i-th thread started *)
ThreadName(i) == "Thread-" \o ToString(i)

(* A thread at _fetch_weather_data: "fetching" inside line 69, "fetched"   *)
(* with its outcome before lines 71-79, "failed" in the except clause      *)
(* after line 73 or 75 raised, "done" at the end, "died" when an           *)
(* exception left the function; posted is the callback it handed to        *)
(* root.after.                                                             *)
Thread(p, got, posted) == [pc |-> p, got |-> got, posted |-> posted]

NoCallback == [fn |-> "none"]

(* __init__ (lines 20-46): the window built, current_weather None, then   *)
(* the first refresh_weather_data(); run() has not been called yet.        *)
InitApp ==
    /\ FetchIdle
    /\ RecordsIdle
    /\ StoreIdle
    /\ ui = RefreshWeatherData(App(Window(FALSE, "normal", "Ready", BlankDisplay, NoDialog),
                                   JNull)).app.ui
    /\ current_weather = JNull
    /\ mainloop = "starting"
    /\ after_queue = <<>>
    /\ threads = <<Thread("fetching", NoResult, NoCallback)>>
    /\ writers = [p \in AllParts |-> {MainThread}]

(* Thread th runs a method with effect e. *)
Runs(th, e) ==
    /\ ui' = e.app.ui
    /\ current_weather' = e.app.current_weather
    /\ writers' = [p \in AllParts |->
                     IF p \in e.wrote THEN writers[p] \cup {th} ELSE writers[p]]

(* run() (lines 149-155): the event loop starts. *)
StartMainloop ==
    /\ mainloop = "starting"
    /\ mainloop' = "running"
    /\ UNCHANGED <<ui, current_weather, after_queue, threads, writers>>
    /\ UNCHANGED <<fetchVars, recordVars, storeVars>>

(* The refresh button, enabled, is clicked: on_refresh_clicked (lines     *)
(* 48-50) runs refresh_weather_data on the main thread, which starts a     *)
(* thread.                                                                 *)
ClickRefresh ==
    /\ mainloop = "running"
    /\ ui.refresh_btn = "normal"
    /\ ~ui.loading
    /\ ui.dialog = NoDialog
    /\ Len(threads) < MaxFetches
    /\ Runs(MainThread, RefreshWeatherData(App(ui, current_weather)))
    /\ threads' = Append(threads, Thread("fetching", NoResult, NoCallback))
    /\ UNCHANGED <<mainloop, after_queue>>
    /\ UNCHANGED <<fetchVars, recordVars, storeVars>>

(* Line 69 in thread i: get_mars_weather() returns or raises. *)
Fetch(i) ==
    /\ threads[i].pc = "fetching"
    /\ \E t \in AppTransports : \E got \in Fetched(t, AppDemoRecords) :
           threads' = [threads EXCEPT ![i] = Thread("fetched", got, NoCallback)]
    /\ UNCHANGED <<ui, current_weather, mainloop, after_queue, writers>>
    /\ UNCHANGED <<fetchVars, recordVars, storeVars>>

(* Where thread i is after its statement raised r: in the except clause   *)
(* when the statement was in the try block, out of the function when it    *)
(* was line 79.                                                            *)
Raised(i, r) ==
    IF threads[i].pc = "fetched" /\ threads[i].got.kind = "returned"
    THEN Thread("failed", [kind |-> "raised", exc |-> r.exc, msg |-> r.msg], NoCallback)
    ELSE Thread("died", threads[i].got, NoCallback)

(* Thread i has executed its statement, with effect e on the application   *)
(* and q the timers after it.                                              *)
Passed(i, stmt, e, q) ==
    /\ Runs(ThreadName(i), e)
    /\ after_queue' = q
    /\ threads' = [threads EXCEPT ![i] =
                      IF e.ret.ok
                      THEN Thread("done", threads[i].got,
                                  IF stmt.via = "after" THEN stmt.cb ELSE NoCallback)
                      ELSE Raised(i, e.ret)]

(* Thread i executes stmt: root.after leaves the application as it is and  *)
(* registers the timer; a call runs the callback in thread i.              *)
Execute(i, stmt, now) ==
    IF stmt.via = "after"
    THEN Passed(i, stmt,
                Effect(App(ui, current_weather), {}, 0,
                       After(mainloop, after_queue, stmt.cb).ret),
                After(mainloop, after_queue, stmt.cb).queue)
    ELSE Passed(i, stmt, Invoke(App(ui, current_weather), stmt.cb, now), after_queue)

(* Lines 71-79 in thread i: it passes on what it got. *)
Pass(i) ==
    /\ threads[i].pc \in {"fetched", "failed"}
    /\ \E now \in Clock : Execute(i, PassOn(threads[i].got), now)
    /\ UNCHANGED mainloop
    /\ UNCHANGED <<fetchVars, recordVars, storeVars>>

(* The event loop runs the timer that is due, on the main thread; an       *)
(* exception of the callback is reported and the loop goes on.             *)
RunAfter ==
    /\ mainloop = "running"
    /\ after_queue # <<>>
    /\ \E now \in Clock : Runs(MainThread, Invoke(App(ui, current_weather),
                                                  Head(after_queue), now))
    /\ after_queue' = Tail(after_queue)
    /\ UNCHANGED <<mainloop, threads>>
    /\ UNCHANGED <<fetchVars, recordVars, storeVars>>

(* The user closes the message box of _show_error. *)
DismissError ==
    /\ mainloop = "running"
    /\ ui.dialog # NoDialog
    /\ ui' = [ui EXCEPT !.dialog = NoDialog]
    /\ UNCHANGED <<current_weather, mainloop, after_queue, threads, writers>>
    /\ UNCHANGED <<fetchVars, recordVars, storeVars>>

(* A thread takes its step of line 69. *)
Fetching == \E i \in 1..Len(threads) : Fetch(i)

(* A thread takes its step of lines 71-79. *)
Passing == \E i \in 1..Len(threads) : Pass(i)

NextApp ==
    \/ StartMainloop
    \/ ClickRefresh
    \/ Fetching
    \/ Passing
    \/ RunAfter
    \/ DismissError

SpecApp == InitApp /\ [][NextApp]_vars

-----------------------------------------------------------------------------
(* The threads of the application and what they write. *)

(* The callback that passes on what a thread got *)
CallbackFor(got) ==
    IF got.kind = "returned" THEN Callback("_update_ui_with_weather", got.rec)
    ELSE Callback("_show_error", MsgFailed(got.msg))

(* Thread i has handed a callback to root.after. *)
Posted(i) == threads[i].posted.fn # "none"

(* Thread i has handed over this callback. *)
PostedThe(i, cb) ==
    /\ threads[i].posted.fn = cb.fn
    /\ threads[i].posted.arg = cb.arg

(* C20: the fetch runs on a thread of its own, and in every interleaving   *)
(* current_weather, the loading overlay, the status bar and the weather    *)
(* widgets are written by the main thread only: a thread that ends its     *)
(* fetch has handed its record or its error to root.after, every pending   *)
(* timer was handed over by such a thread, and the record in               *)
(* current_weather is one a thread handed over.                            *)
C20_DisplayWrittenByMainThread ==
    /\ \A p \in AllParts : writers[p] \subseteq {MainThread}
    /\ \A i \in 1..Len(threads) :
          threads[i].pc = "done"
             => Posted(i) /\ PostedThe(i, CallbackFor(threads[i].got))
    /\ \A k \in 1..Len(after_queue) :
          \E i \in 1..Len(threads) : PostedThe(i, after_queue[k])
    /\ current_weather # JNull
          => \E i \in 1..Len(threads) :
                PostedThe(i, Callback("_update_ui_with_weather", current_weather))

(* The second fetch of a run handed its record over, and the main thread   *)
(* has shown it and taken the loading overlay away.                        *)
C20_Witness ==
    /\ Len(threads) = 2
    /\ threads[2].pc = "done" /\ threads[2].got.kind = "returned"
    /\ after_queue = <<>>
    /\ current_weather = threads[2].got.rec
    /\ ui.display.temp_display = "-60.2°C"
    /\ ~ui.loading /\ ui.status_bar = "Last updated: 23:59:59"
    /\ writers["display"] = {MainThread}

-----------------------------------------------------------------------------
(* The application under the scheduling the code relies on: run() follows  *)
(* __init__ at once, session.get returns or raises within its timeout of   *)
(* 10 s, a started thread runs on to the end of _fetch_weather_data, and   *)
(* the event loop runs every timer that is due.  The user is under no      *)
(* obligation to click or to close a message box.                         *)
SpecAppFair ==
    /\ InitApp
    /\ [][NextApp]_vars
    /\ WF_vars(StartMainloop)
    /\ WF_vars(Fetching)
    /\ WF_vars(Passing)
    /\ WF_vars(RunAfter)

(* The refresh is on: the overlay is placed and the button disabled. *)
Loading == ui.loading /\ ui.refresh_btn = "disabled"

(* The refresh is over: the overlay is gone and the button enabled. *)
LoadingOff == ~ui.loading /\ ui.refresh_btn = "normal"

(* Every root.after of the threads found the event loop running. *)
LoopKeptRunning == \A i \in 1..Len(threads) : threads[i].pc # "died"

(* No refresh has more than one callback: a thread hands over nothing      *)
(* before its last statement, and the pending timers are no more than the  *)
(* threads that handed one over.                                           *)
OneCallbackPerRefresh ==
    /\ \A i \in 1..Len(threads) : threads[i].pc # "done" => ~Posted(i)
    /\ Len(after_queue) <= Cardinality({i \in 1..Len(threads) : Posted(i)})

(* C21: every refresh_weather_data, which turns the loading state on and   *)
(* disables the refresh button, is followed, when the request returns or   *)
(* times out and the event loop is running for the thread's root.after, by *)
(* one callback on the main thread that turns the loading state off and    *)
(* enables the button again; no refresh gets two callbacks and the         *)
(* application does not stay in the loading state for ever.                *)
C21_RefreshCompletes ==
    /\ []OneCallbackPerRefresh
    /\ (Loading /\ LoopKeptRunning) ~> (LoadingOff \/ ~LoopKeptRunning)

====
